---- MODULE Spec2Model ----
(***************************************************************************)
(* PolymarketClient streaming (src/src/polymarket/client.py).              *)
(*                                                                         *)
(* The client object, the caller's thread and the background threads that  *)
(* stream_order_books / stream_order_book spawn (run_websocket), with the  *)
(* WebSocketApp each thread creates per loop iteration.                    *)
(* The on_message handlers of both entry points, over decoded messages,    *)
(* and fetch_all_markets against a paged market catalog.                   *)
(***************************************************************************)
EXTENDS Integers, Sequences, FiniteSets, TLC

\* ---------------------------------------------------------------- bounds
\* WebSocketApp objects a run may create, the clock's last value, the last
\* value idle time reaches on its own
MaxConns == 2
MaxTime == 8
TickHorizon == 1
\* the same for the runs of one thread through its whole backoff schedule
BackoffConns == 9
BackoffTime == 190
\* the same for the runs that deliver messages, and the messages of such a run
MsgConns == 1
MaxMsgs == 2
\* the pages of a catalog, the markets of a full page, the get_markets calls of a run
MaxPages == 3
PageSize == 2
MaxCalls == 5
PingConns == 2
MaxPings == 2
MaxSinkMsgs == 3
StopConns == 2
StopMsgs == 1
MaxEvents == 3

\* ------------------------------------------------------ program constants
initial_reconnect_delay == 1
max_reconnect_delay == 60
ping_interval == 10

\* ------------------------------------------------------------ input sets
\* the thread objects of a run: a session's worker and the worker of one more start
Threads == {1, 2}
\* duration: <<>> is None, <<d>> is a ceiling of d time units
\* the calls of stream_order_books(token_ids, callback, duration)
BooksCalls ==
    { [tokens |-> <<>>, cb |-> "cbA", d |-> <<>>],
      [tokens |-> <<"T1">>, cb |-> "cbA", d |-> <<>>],
      [tokens |-> <<"T2", "T1">>, cb |-> "cbB", d |-> <<3>>] }
\* the calls of stream_order_book(token_id, callback, interval, duration)
BookCalls ==
    { [token_id |-> "T2", cb |-> "cbA", d |-> <<0>>] }

\* A market is the keys its dictionary has and their values (the value of a
\* key it has not is a filler); a token is a dictionary too.
Token(token_id, outcome) ==
    [keys |-> {"token_id", "outcome"}, token_id |-> token_id, outcome |-> outcome]
TokenNoId == [keys |-> {"outcome"}, token_id |-> "", outcome |-> "No"]
Market(keys, tokens) ==
    [keys |-> keys, condition_id |-> "C1", question_id |-> "Q1", question |-> "Will it?",
     tokens |-> tokens]
AllMarketKeys == {"condition_id", "question_id", "question", "tokens"}
MarketOneToken == Market(AllMarketKeys, <<Token("T2", "Yes")>>)
MarketNoQuestion == Market({"condition_id", "tokens"}, <<Token("T1", "Yes"), Token("T2", "No")>>)
MarketNoTokens == Market({"condition_id", "question_id", "question"}, <<>>)
MarketEmptyTokens == Market(AllMarketKeys, <<>>)
MarketNoTokenId == Market(AllMarketKeys, <<TokenNoId>>)
\* the calls of stream_order_book_for_market(market, callback, interval,
\* duration, token_index)
MarketCalls ==
    { [market |-> m, cb |-> "cbA", d |-> <<>>, token_index |-> i] :
        m \in {MarketOneToken, MarketNoQuestion, MarketNoTokens, MarketEmptyTokens, MarketNoTokenId},
        i \in {0, 1, -1, -3} }

\* ------------------------------------------------------ display scripts
\* The events handed to main.on_update of stream_orderbook.py and
\* stream_prices.py. A price is [none |-> TRUE] for None or the text the feed
\* sent; a book snapshot carries no "price" key.
\*
\* A float is a binary64 value: an infinity, a NaN, or m * 2^e with its sign
\* (m a natural number in limbs, see the message conversions).
Float(neg, m, e) == [k |-> "num", neg |-> neg, m |-> m, e |-> e]
Zero == Float(FALSE, <<>>, 0)
Infinity(neg) == [k |-> "inf", neg |-> neg, m |-> <<>>, e |-> 0]
NaN == [k |-> "nan", neg |-> FALSE, m |-> <<>>, e |-> 0]

DisplayTokens == {"T1", "T2"}
Text(cs) == [none |-> FALSE, text |-> cs]
PriceNone == [none |-> TRUE, text |-> <<>>]
NA == <<"N", "/", "A">>
DisplayPrices ==
    { Text(<<"0", ".", "1", "4">>), Text(<<"0", ".", "1", "4", "9">>),
      Text(<<" ", "0", ".", "1", "5">>), Text(<<"0", ".", "1", "6">>),
      Text(<<"a", "b", "c">>), Text(NA), PriceNone }
DisplayEvents ==
    [event_type : {"price_change"}, token_id : DisplayTokens, price : DisplayPrices]
        \cup [event_type : {"book"}, token_id : {"T1"}, price : {Text(NA)}]

\* ------------------------------------------------------ market catalogs
\* The CLOB server as get_markets sees it: its pages (data and next_cursor),
\* what it does with a cursor that points past them, and the call, if any,
\* that fails (failAt = 0: none) with the error it fails with.
Exhausted == "next item should be greater than or equal to 0"
ExhaustedWrapped == "PolyApiException[status_code=400, error_message=next item should be greater than or equal to 0]"
ConnectionReset == "Connection reset by peer"

\* the cursor that leads to page k; the first call has none
CursorTo(k) == IF k = 2 THEN "Mg==" ELSE IF k = 3 THEN "Mw==" ELSE IF k = 4 THEN "NA==" ELSE "NQ=="
EndCursor == "LTE="

\* n pages of PageSize markets each, the last one with a single market if
\* short, its next_cursor being lastNext
Pages(n, short, lastNext) ==
    [k \in 1..n |->
        [data |-> IF k = n /\ short THEN <<10 * k + 1>>
                  ELSE [i \in 1..PageSize |-> 10 * k + i],
         next_cursor |-> IF k = n THEN lastNext ELSE CursorTo(k + 1)]]

Catalogs ==
    { [pages |-> Pages(n, short, lastNext), tail |-> tl, failAt |-> f, failure |-> e] :
        n \in 0..MaxPages, short \in BOOLEAN, lastNext \in {"None", EndCursor},
        tl \in {"raise", "empty", "null"}, f \in 0..MaxPages,
        e \in {Exhausted, ExhaustedWrapped, ConnectionReset} }

\* a catalog nobody asks: no page, the exhaustion error at once
NoCatalog == [pages |-> <<>>, tail |-> "raise", failAt |-> 0, failure |-> Exhausted]

\* the stream_order_book call of the runs that deliver messages
HandlingBookCalls ==
    { [token_id |-> "T2", cb |-> "cbA", d |-> <<>>] }

VARIABLES
    _streaming_active,   \* self._streaming_active
    _streaming_thread,   \* self._streaming_thread: <<>> (None) or <<t>>
    _websocket,          \* self._websocket: <<>> (None) or <<t, n>>, the n-th WebSocketApp of thread t
    _ws_callback,        \* self._ws_callback: "None" or a callback
    _ws_token_id,        \* self._ws_token_id: "None" or a token id
    now,                 \* time.time()
    caller,              \* the caller's thread: "idle", or inside stop_streaming: "close" in close(), "join" in the join
    joining,             \* per thread and for the caller's (0): the thread its join(timeout=2.0) waits for, and since when
    call,                \* the last public call: alternating bit, operation, "not token_ids",
                         \* the error raised ("pending": not returned yet), the line logged last
    budget,              \* WebSocketApp objects the run may still create
    horizon,             \* the clock value up to which sleeps end in this run (a join that times out
                         \* takes the clock 2 s on whatever the horizon)
    pc,                  \* per thread: position in run_websocket
    kind,                \* per thread: the entry point that spawned it
    token_ids,           \* per thread: closure variable token_ids ([token_id] for stream_order_book)
    callback,            \* per thread: closure variable callback
    duration,            \* per thread: closure variable duration
    start_time,          \* per thread: closure variable start_time
    reconnect_delay,     \* per thread: local reconnect_delay
    sleep_start,         \* per thread: the clock when its time.sleep(reconnect_delay) was entered
    wsCount,             \* per thread: WebSocketApp objects created so far
    wsState,             \* per thread: its current WebSocketApp: "none", "new", "open", "closed"
    wsCloseReq,          \* per thread: close() was called on its current WebSocketApp
    sent,                \* per thread: messages sent on its current WebSocketApp
    delays,              \* per thread: history of the delays slept
    stopAt,              \* per thread: history, its phase when stop_streaming ran for its session ("none": never)
    msgBudget,           \* messages the transports of the run may still deliver
    received,            \* history: the messages on_message was called with, in order
    sink,                \* history: the callback invocations, in order
    handler,             \* per thread: the on_message call whose sink is inside stop_streaming
    enclosed,            \* per thread: what the callback closes over (enhanced_callback: callback, market, token)
    server,              \* the CLOB server's market catalog, as get_markets answers
    fpc,                 \* fetch_all_markets: position of the call
    all_markets,         \* fetch_all_markets: local all_markets
    next_cursor,         \* fetch_all_markets: local next_cursor
    requests,            \* history: the cursors get_markets was called with
    fetched,             \* fetch_all_markets: what the call gave its caller
    rest,                \* get_order_book: the last call, what the REST call did and what it returned
    pingers,             \* the send_ping threads started so far: connection and position
    pings,               \* history: the PINGs sent, with connection and time
    display              \* a display script's on_update closure: tick_size, previous_prices, counters, and the events it was given

clientVars == <<_streaming_active, _streaming_thread, _websocket, _ws_callback, _ws_token_id>>
threadVars == <<pc, kind, token_ids, callback, duration, start_time, reconnect_delay, sleep_start,
                wsCount, wsState, wsCloseReq, sent, delays, stopAt>>
msgVars == <<msgBudget, received, sink, handler, enclosed>>
fetchVars == <<server, fpc, all_markets, next_cursor, requests, fetched>>
sideVars == <<rest, pingers, pings, display>>
vars == <<clientVars, now, caller, joining, call, budget, horizon, msgVars, fetchVars, sideVars, threadVars>>

Min(a, b) == IF a <= b THEN a ELSE b
Max(a, b) == IF a >= b THEN a ELSE b
Range(seq) == {seq[i] : i \in 1..Len(seq)}

Alive(t) == pc[t] \notin {"unborn", "absent", "done"}
ThreadOf(ref) == IF ref = <<>> THEN {} ELSE {ref[1]}

\* The threads that may be inside "self._streaming_thread.join(timeout=2.0)":
\* the caller's thread (0) and, for a sink that calls stop_streaming, the
\* workers. A join waits for a thread (<<u>>) since a clock value.
Joiners == Threads \cup {0}
NotJoining == [thread |-> <<>>, since |-> 0]
Join(ref) == [thread |-> ref, since |-> now]

\* the clock when a wait of at most d that began at clock value start is
\* over: d later, or what the clock shows by then if other threads' waits
\* have taken it further
woken(start, d) == Max(now, start + d)

\* the clock when the join of thread j returns: at once when the thread it
\* waits for has ended, when the 2 seconds have passed while it is alive
join_returns(j) ==
    IF \E u \in ThreadOf(joining[j].thread) : Alive(u) THEN woken(joining[j].since, 2) ELSE now

\* ------------------------------------------------------------------ Init
\* PolymarketClient.__init__: no stream, no thread (self.client is set by
\* _initialize_client, which raises otherwise, so it is never None afterwards).
InitWith(conns, time, live) ==
    /\ budget = conns
    /\ horizon = time
    /\ _streaming_active = FALSE
    /\ _streaming_thread = <<>>
    /\ _websocket = <<>>
    /\ _ws_callback = "None"
    /\ _ws_token_id = "None"
    /\ now = 0
    /\ caller = "idle"
    /\ joining = [j \in Joiners |-> NotJoining]
    /\ call = [seq |-> 0, op |-> "none", empty |-> FALSE, err |-> "none", log |-> ""]
    /\ pc = [t \in Threads |-> IF t \in live THEN "unborn" ELSE "absent"]
    /\ kind = [t \in Threads |-> "none"]
    /\ token_ids = [t \in Threads |-> <<>>]
    /\ callback = [t \in Threads |-> "None"]
    /\ duration = [t \in Threads |-> <<>>]
    /\ start_time = [t \in Threads |-> 0]
    /\ reconnect_delay = [t \in Threads |-> initial_reconnect_delay]
    /\ sleep_start = [t \in Threads |-> 0]
    /\ wsCount = [t \in Threads |-> 0]
    /\ wsState = [t \in Threads |-> "none"]
    /\ wsCloseReq = [t \in Threads |-> FALSE]
    /\ sent = [t \in Threads |-> <<>>]
    /\ delays = [t \in Threads |-> <<>>]
    /\ stopAt = [t \in Threads |-> "none"]

\* no on_message call under way: the message (<<>>: none), the callback
\* invocations still to make and the number made, the line logged last,
\* whether a stop_streaming call of its sink found the flag set
NoHandler == [message |-> <<>>, todo |-> <<>>, made |-> 0, log |-> "", stopped |-> FALSE]

\* a callback that closes over nothing
NoClosure == [callback |-> "None", market |-> <<>>, token |-> <<>>]

\* no message delivered yet, n still to come
InitMessages(n) ==
    /\ msgBudget = n
    /\ received = <<>>
    /\ sink = <<>>
    /\ handler = [t \in Threads |-> NoHandler]
    /\ enclosed = [t \in Threads |-> NoClosure]

\* the closure of main.on_update in a display script, before any event:
\* "previous_prices = {}", the counters at 0
NewDisplay(script, tick, verbose) ==
    [script |-> script, tick_size |-> tick, verbose |-> verbose,
     previous_prices |-> [k \in DisplayTokens |-> <<>>],
     book_count |-> 0, price_count |-> 0, events |-> <<>>]

\* no display script running
NoDisplay == NewDisplay("none", Zero, FALSE)

\* no fetch_all_markets call made yet, against the catalog srv
InitFetchWith(srv) ==
    /\ server = srv
    /\ fpc = "idle"
    /\ all_markets = <<>>
    /\ next_cursor = "None"
    /\ requests = <<>>
    /\ fetched = [returned |-> FALSE, err |-> "none", markets |-> <<>>, log |-> ""]
    /\ rest = [token_id |-> "None", fetch |-> "none", raised |-> "none", value |-> "None",
               log |-> ""]
    /\ pingers = {}
    /\ pings = <<>>
    /\ display = NoDisplay

Init == InitWith(MaxConns, MaxTime, Threads) /\ InitMessages(0) /\ InitFetchWith(NoCatalog)

InitBackoff == InitWith(BackoffConns, BackoffTime, {1}) /\ InitMessages(0) /\ InitFetchWith(NoCatalog)

\* ------------------------------------------------------- the public calls
Returned(op, tokens, err, log) ==
    call' = [seq |-> 1 - call.seq, op |-> op, empty |-> (tokens = <<>>), err |-> err,
             log |-> log]

\* a start that does not look at the flag
already_streaming_never == FALSE

\* "if self._streaming_active: raise RuntimeError(...)"
already_streaming == _streaming_active

\* "if not token_ids: raise ValueError(...)"
no_token_ids(tokens) == tokens = <<>>

\* The thread object the next successful start creates.
FreshThread == CHOOSE t \in Threads : pc[t] = "unborn" /\ \A u \in Threads : pc[u] = "unborn" => t <= u

\* The assignments of a successful start and threading.Thread(...).start().
Spawn(t, k, tokens, cb, d, env) ==
    /\ _streaming_active' = TRUE
    /\ _ws_callback' = cb
    /\ _ws_token_id' = tokens[1]
    /\ _streaming_thread' = <<t>>
    /\ pc' = [pc EXCEPT ![t] = "loop"]
    /\ kind' = [kind EXCEPT ![t] = k]
    /\ token_ids' = [token_ids EXCEPT ![t] = tokens]
    /\ callback' = [callback EXCEPT ![t] = cb]
    /\ duration' = [duration EXCEPT ![t] = d]
    /\ start_time' = [start_time EXCEPT ![t] = now]
    /\ reconnect_delay' = [reconnect_delay EXCEPT ![t] = initial_reconnect_delay]
    /\ enclosed' = [enclosed EXCEPT ![t] = env]
    /\ UNCHANGED <<_websocket, now, caller, joining, budget, horizon, msgBudget, received, sink, handler,
                   fetchVars, sideVars, sleep_start, wsCount, wsState, wsCloseReq, sent, delays,
                   stopAt>>

\* a start that validates token_ids after it has marked the stream active
stream_order_books_late_check(tokens, cb, d) ==
    /\ caller = "idle"
    /\ IF already_streaming
       THEN /\ Returned("stream_order_books", tokens, "RuntimeError", "")
            /\ UNCHANGED <<clientVars, now, caller, joining, budget, horizon, msgVars, fetchVars, sideVars, threadVars>>
       ELSE IF no_token_ids(tokens)
       THEN /\ Returned("stream_order_books", tokens, "ValueError", "")
            /\ _streaming_active' = TRUE
            /\ _ws_callback' = cb
            /\ UNCHANGED <<_streaming_thread, _websocket, _ws_token_id, now, caller, joining, budget,
                           horizon, msgVars, fetchVars, sideVars, threadVars>>
       ELSE /\ \E t \in Threads : pc[t] = "unborn"
            /\ Returned("stream_order_books", tokens, "none", "Started WebSocket streaming")
            /\ Spawn(FreshThread, "books", tokens, cb, d, NoClosure)

stream_order_books(tokens, cb, d) ==
    /\ caller = "idle"
    /\ IF already_streaming
       THEN /\ Returned("stream_order_books", tokens, "RuntimeError", "")
            /\ UNCHANGED <<clientVars, now, caller, joining, budget, horizon, msgVars, fetchVars, sideVars, threadVars>>
       ELSE IF no_token_ids(tokens)
       THEN /\ Returned("stream_order_books", tokens, "ValueError", "")
            /\ UNCHANGED <<clientVars, now, caller, joining, budget, horizon, msgVars, fetchVars, sideVars, threadVars>>
       ELSE /\ \E t \in Threads : pc[t] = "unborn"
            /\ Returned("stream_order_books", tokens, "none", "Started WebSocket streaming")
            /\ Spawn(FreshThread, "books", tokens, cb, d, NoClosure)

stream_order_book(token_id, cb, d) ==
    /\ caller = "idle"
    /\ IF already_streaming
       THEN /\ Returned("stream_order_book", <<token_id>>, "RuntimeError", "")
            /\ UNCHANGED <<clientVars, now, caller, joining, budget, horizon, msgVars, fetchVars, sideVars, threadVars>>
       ELSE /\ \E t \in Threads : pc[t] = "unborn"
            /\ Returned("stream_order_book", <<token_id>>, "none", "Started WebSocket streaming")
            /\ Spawn(FreshThread, "book", <<token_id>>, cb, d, NoClosure)

\* market.get("tokens", [])
tokens_of(market) == IF "tokens" \in market.keys THEN market.tokens ELSE <<>>

\* "if not tokens or len(tokens) <= token_index: raise ValueError(...)"
no_token_at(tokens, token_index) == tokens = <<>> \/ Len(tokens) <= token_index

\* tokens[token_index] of a Python list: from the end for a negative index,
\* IndexError (<<>>) beyond its start
token_at(tokens, token_index) ==
    IF token_index >= 0 THEN <<tokens[token_index + 1]>>
    ELSE IF Len(tokens) + token_index >= 0 THEN <<tokens[Len(tokens) + token_index + 1]>>
    ELSE <<>>

\* tokens[token_index].get("token_id"), "None" for a token without the key
token_id_of(token) == IF "token_id" \in token.keys THEN token.token_id ELSE "None"

\* "if not token_id: raise ValueError(...)"
no_token_id(token_id) == token_id \in {"None", ""}

\* what enhanced_callback closes over: callback, market, tokens[token_index]
closure(cb, market, token) == [callback |-> cb, market |-> <<market>>, token |-> <<token>>]

\* stream_order_book_for_market: the checks of the market, made before the
\* flag is looked at, then stream_order_book with enhanced_callback
stream_order_book_for_market(market, cb, d, token_index) ==
    LET tokens == tokens_of(market)
        failed(err) ==
            /\ Returned("stream_order_book_for_market", <<"-">>, err, "")
            /\ UNCHANGED <<clientVars, now, caller, joining, budget, horizon, msgVars, fetchVars, sideVars, threadVars>>
    IN  /\ caller = "idle"
        /\ IF no_token_at(tokens, token_index) THEN failed("ValueError")
           ELSE IF token_at(tokens, token_index) = <<>> THEN failed("IndexError")
           ELSE IF no_token_id(token_id_of(token_at(tokens, token_index)[1])) THEN failed("ValueError")
           ELSE IF already_streaming THEN failed("RuntimeError")
           ELSE /\ \E t \in Threads : pc[t] = "unborn"
                /\ Returned("stream_order_book_for_market",
                            <<token_id_of(token_at(tokens, token_index)[1])>>, "none",
                            "Started WebSocket streaming")
                /\ Spawn(FreshThread, "book", <<token_id_of(token_at(tokens, token_index)[1])>>,
                         "enhanced_callback", d,
                         closure(cb, market, token_at(tokens, token_index)[1]))

\* self._websocket.close(): asks the WebSocketApp to stop; it has an effect on
\* the thread whose current WebSocketApp it is, if that one is not closed yet.
CloseReqAfter(ws) ==
    [t \in Threads |->
        IF ws # <<>> /\ ws[1] = t /\ ws[2] = wsCount[t] /\ wsState[t] \in {"new", "open"}
        THEN TRUE ELSE wsCloseReq[t]]


\* Where run_websocket of thread t is: past its loop check with no open
\* transport yet, holding an open transport, or elsewhere.
Phase(t) ==
    IF pc[t] \in {"connect", "run"} THEN "connecting"
    ELSE IF pc[t] \in {"open", "sink", "sink_close", "sink_join"} THEN "open"
    ELSE "other"

\* a stop without its "if self._streaming_active:" guard
stop_streaming_unguarded ==
    /\ caller = "idle"
    /\ IF TRUE
       THEN /\ _streaming_active' = FALSE
            /\ wsCloseReq' = CloseReqAfter(_websocket)
            /\ stopAt' = [t \in Threads |->
                            IF t \in ThreadOf(_streaming_thread) THEN Phase(t) ELSE stopAt[t]]
            /\ IF _websocket # <<>>
               THEN /\ caller' = "close"
                    /\ Returned("stop_streaming", <<"-">>, "pending", "")
                    /\ UNCHANGED <<joining, _ws_callback, _ws_token_id>>
               ELSE IF \E t \in ThreadOf(_streaming_thread) : Alive(t)
               THEN /\ caller' = "join"
                    /\ joining' = [joining EXCEPT ![0] = Join(_streaming_thread)]
                    /\ Returned("stop_streaming", <<"-">>, "pending", "")
                    /\ UNCHANGED <<_ws_callback, _ws_token_id>>
               ELSE /\ caller' = "idle"
                    /\ Returned("stop_streaming", <<"-">>, "none", "Streaming stopped")
                    /\ _ws_callback' = "None"
                    /\ _ws_token_id' = "None"
                    /\ UNCHANGED joining
            /\ UNCHANGED <<_streaming_thread, _websocket, now, budget, horizon, msgVars, fetchVars, sideVars, pc, kind, token_ids,
                           callback, duration, start_time, reconnect_delay, sleep_start, wsCount,
                           wsState, sent, delays>>
       ELSE /\ Returned("stop_streaming", <<"-">>, "none", "No active stream to stop")
            /\ UNCHANGED <<clientVars, now, caller, joining, budget, horizon, msgVars, fetchVars, sideVars, threadVars>>

\* stop_streaming up to its first wait: the flag, then, with a WebSocketApp in
\* self._websocket, the call of close() on it (lines 632-638); with none, on
\* to the join (644-645)
stop_streaming ==
    /\ caller = "idle"
    /\ IF _streaming_active
       THEN /\ _streaming_active' = FALSE
            /\ wsCloseReq' = CloseReqAfter(_websocket)
            /\ stopAt' = [t \in Threads |->
                            IF t \in ThreadOf(_streaming_thread) THEN Phase(t) ELSE stopAt[t]]
            /\ IF _websocket # <<>>
               THEN /\ caller' = "close"
                    /\ Returned("stop_streaming", <<"-">>, "pending", "")
                    /\ UNCHANGED <<joining, _ws_callback, _ws_token_id>>
               ELSE IF \E t \in ThreadOf(_streaming_thread) : Alive(t)
               THEN /\ caller' = "join"
                    /\ joining' = [joining EXCEPT ![0] = Join(_streaming_thread)]
                    /\ Returned("stop_streaming", <<"-">>, "pending", "")
                    /\ UNCHANGED <<_ws_callback, _ws_token_id>>
               ELSE /\ caller' = "idle"
                    /\ Returned("stop_streaming", <<"-">>, "none", "Streaming stopped")
                    /\ _ws_callback' = "None"
                    /\ _ws_token_id' = "None"
                    /\ UNCHANGED joining
            /\ UNCHANGED <<_streaming_thread, _websocket, now, budget, horizon, msgVars, fetchVars, sideVars, pc, kind, token_ids,
                           callback, duration, start_time, reconnect_delay, sleep_start, wsCount,
                           wsState, sent, delays>>
       ELSE /\ Returned("stop_streaming", <<"-">>, "none", "No active stream to stop")
            /\ UNCHANGED <<clientVars, now, caller, joining, budget, horizon, msgVars, fetchVars, sideVars, threadVars>>

\* stop_streaming after close() returned or raised: "self._websocket = None",
\* whatever a worker stored there in the meantime, then the join
stop_streaming_closed ==
    /\ caller = "close"
    /\ _websocket' = <<>>
    /\ IF \E t \in ThreadOf(_streaming_thread) : Alive(t)
       THEN /\ caller' = "join"
            /\ joining' = [joining EXCEPT ![0] = Join(_streaming_thread)]
            /\ UNCHANGED <<call, _ws_callback, _ws_token_id>>
       ELSE /\ caller' = "idle"
            /\ call' = [call EXCEPT !.err = "none", !.log = "Streaming stopped"]
            /\ _ws_callback' = "None"
            /\ _ws_token_id' = "None"
            /\ UNCHANGED joining
    /\ UNCHANGED <<_streaming_active, _streaming_thread, now, budget, horizon, msgVars, fetchVars, sideVars,
                   threadVars>>

\* stop_streaming after "self._streaming_thread.join(timeout=2.0)" returned:
\* the thread has ended, or it is alive and the 2 seconds have passed
stop_streaming_joined ==
    /\ caller = "join"
    /\ caller' = "idle"
    /\ now' = join_returns(0)
    /\ joining' = [joining EXCEPT ![0] = NotJoining]
    /\ _ws_callback' = "None"
    /\ _ws_token_id' = "None"
    /\ call' = [call EXCEPT !.err = "none", !.log = "Streaming stopped"]
    /\ UNCHANGED <<_streaming_active, _streaming_thread, _websocket, budget, horizon, msgVars, fetchVars, sideVars,
                   threadVars>>

\* ------------------------------------------------ run_websocket, per thread
\* a ceiling that is passed only once it is exceeded
duration_reached_strict(e, d) == e > d

\* "if elapsed >= duration: break"
duration_reached(e, d) == e >= d

\* a doubling without its cap
next_reconnect_delay_nocap(d) == d * 2

\* "reconnect_delay = min(reconnect_delay * 2, max_reconnect_delay)"
next_reconnect_delay(d) == Min(d * 2, max_reconnect_delay)

\* a subscription to the stored first token only
subscribe_message_first(tokens) == [assets_ids |-> <<tokens[1]>>, type |-> "market"]

\* on_open's subscribe_message
subscribe_message(tokens) == [assets_ids |-> tokens, type |-> "market"]

\* "while self._streaming_active:" and the duration check before connecting
loop_check(t) ==
    /\ pc[t] = "loop"
    /\ IF ~_streaming_active
       THEN pc' = [pc EXCEPT ![t] = "done"]
       ELSE IF duration[t] # <<>> /\ duration_reached(now - start_time[t], duration[t][1])
       THEN pc' = [pc EXCEPT ![t] = "done"]
       ELSE pc' = [pc EXCEPT ![t] = "connect"]
    /\ UNCHANGED <<clientVars, now, caller, joining, call, budget, horizon, msgVars, fetchVars, sideVars, kind, token_ids, callback, duration,
                   start_time, reconnect_delay, sleep_start, wsCount, wsState, wsCloseReq, sent,
                   delays, stopAt>>

\* "self._websocket = websocket.WebSocketApp(...)" and the entry of run_forever
create_websocket(t) ==
    /\ pc[t] = "connect"
    /\ budget > 0
    /\ budget' = budget - 1
    /\ _websocket' = <<t, wsCount[t] + 1>>
    /\ wsCount' = [wsCount EXCEPT ![t] = @ + 1]
    /\ wsState' = [wsState EXCEPT ![t] = "new"]
    /\ wsCloseReq' = [wsCloseReq EXCEPT ![t] = FALSE]
    /\ sent' = [sent EXCEPT ![t] = <<>>]
    /\ pc' = [pc EXCEPT ![t] = "run"]
    /\ UNCHANGED <<_streaming_active, _streaming_thread, _ws_callback, _ws_token_id, now,
                   caller, joining, call, horizon, msgVars, fetchVars, sideVars, kind, token_ids, callback, duration, start_time,
                   reconnect_delay, sleep_start, delays, stopAt>>

\* "ping_thread = threading.Thread(target=send_ping, daemon=True)" of
\* stream_order_books.on_open, bound to the connection on_open was called for
\* (stream_order_book.on_open starts none)
ping_thread(t) ==
    IF kind[t] = "books" THEN {[t |-> t, n |-> wsCount[t], st |-> "due", sleep_start |-> 0]} ELSE {}

\* an on_open that starts the backoff over once the connection is up
on_open_resets_delay(t) ==
    /\ pc[t] = "run"
    /\ ~wsCloseReq[t]
    /\ wsState' = [wsState EXCEPT ![t] = "open"]
    /\ sent' = [sent EXCEPT ![t] = Append(@, subscribe_message(token_ids[t]))]
    /\ pc' = [pc EXCEPT ![t] = "open"]
    /\ pingers' = pingers \cup ping_thread(t)
    /\ reconnect_delay' = [reconnect_delay EXCEPT ![t] = initial_reconnect_delay]
    /\ UNCHANGED <<clientVars, now, caller, joining, call, budget, horizon, msgVars, fetchVars, rest, pings, display, kind, token_ids, callback, duration,
                   start_time, sleep_start, wsCount, wsCloseReq, delays, stopAt>>

\* run_forever: the transport opens and the library calls on_open (a
\* WebSocketApp that close() was called on never gets an open transport)
on_open(t) ==
    /\ pc[t] = "run"
    /\ ~wsCloseReq[t]
    /\ wsState' = [wsState EXCEPT ![t] = "open"]
    /\ sent' = [sent EXCEPT ![t] = Append(@, subscribe_message(token_ids[t]))]
    /\ pc' = [pc EXCEPT ![t] = "open"]
    /\ pingers' = pingers \cup ping_thread(t)
    /\ UNCHANGED <<clientVars, now, caller, joining, call, budget, horizon, msgVars, fetchVars, rest, pings, display, kind, token_ids, callback, duration,
                   start_time, reconnect_delay, sleep_start, wsCount, wsCloseReq, delays,
                   stopAt>>

\* run_forever ends (the connection attempt failed, the peer or close() closed
\* the transport): the library calls on_close, then run_forever returns
on_close(t) ==
    /\ pc[t] \in {"run", "open"}
    /\ _streaming_active' = FALSE
    /\ wsState' = [wsState EXCEPT ![t] = "closed"]
    /\ pc' = [pc EXCEPT ![t] = "returned"]
    /\ UNCHANGED <<_streaming_thread, _websocket, _ws_callback, _ws_token_id, now, caller, joining,
                   call, budget, horizon, msgVars, fetchVars, sideVars, kind, token_ids, callback, duration, start_time, reconnect_delay, sleep_start,
                   wsCount, wsCloseReq, sent, delays, stopAt>>

\* the connection attempt raises: control goes to "except Exception as e:"
connect_raises(t) ==
    /\ pc[t] = "run"
    /\ wsState' = [wsState EXCEPT ![t] = "closed"]
    /\ pc' = [pc EXCEPT ![t] = "except"]
    /\ UNCHANGED <<clientVars, now, caller, joining, call, budget, horizon, msgVars, fetchVars, sideVars, kind, token_ids, callback, duration,
                   start_time, reconnect_delay, sleep_start, wsCount, wsCloseReq, sent, delays,
                   stopAt>>

\* after run_forever returned: "if self._streaming_active: ... else: break"
after_run_forever(t) ==
    /\ pc[t] = "returned"
    /\ pc' = [pc EXCEPT ![t] = IF _streaming_active THEN "sleep" ELSE "done"]
    /\ sleep_start' = [sleep_start EXCEPT ![t] = IF _streaming_active THEN now ELSE @]
    /\ UNCHANGED <<clientVars, now, caller, joining, call, budget, horizon, msgVars, fetchVars, sideVars, kind, token_ids, callback, duration,
                   start_time, reconnect_delay, wsCount, wsState, wsCloseReq, sent,
                   delays, stopAt>>

\* in the except branch: "if self._streaming_active: ... else: break"
except_handler(t) ==
    /\ pc[t] = "except"
    /\ pc' = [pc EXCEPT ![t] = IF _streaming_active THEN "sleep" ELSE "done"]
    /\ sleep_start' = [sleep_start EXCEPT ![t] = IF _streaming_active THEN now ELSE @]
    /\ UNCHANGED <<clientVars, now, caller, joining, call, budget, horizon, msgVars, fetchVars, sideVars, kind, token_ids, callback, duration,
                   start_time, reconnect_delay, wsCount, wsState, wsCloseReq, sent,
                   delays, stopAt>>

\* "time.sleep(reconnect_delay)" returns, and the doubling that follows it
sleep_backoff(t) ==
    /\ pc[t] = "sleep"
    /\ woken(sleep_start[t], reconnect_delay[t]) <= horizon
    /\ now' = woken(sleep_start[t], reconnect_delay[t])
    /\ delays' = [delays EXCEPT ![t] = Append(@, reconnect_delay[t])]
    /\ reconnect_delay' = [reconnect_delay EXCEPT ![t] = next_reconnect_delay(@)]
    /\ sleep_start' = [sleep_start EXCEPT ![t] = 0]
    /\ pc' = [pc EXCEPT ![t] = "loop"]
    /\ UNCHANGED <<clientVars, caller, joining, call, budget, horizon, msgVars, fetchVars, sideVars, kind, token_ids, callback,
                   duration, start_time, wsCount, wsState, wsCloseReq, sent, stopAt>>

\* time passes
Tick ==
    /\ now < TickHorizon
    /\ now' = now + 1
    /\ UNCHANGED <<clientVars, caller, joining, call, budget, horizon, msgVars, fetchVars, sideVars, threadVars>>

\* ------------------------------------------------------- message inputs
\* A message is its text ("PONG", text that is no JSON, a JSON array, a JSON
\* object) and, for an object, the keys it has and their values (the value of
\* a key it has not is a filler). A timestamp is a JSON string or a JSON
\* number; a level is an OrderSummary object or a [price, size] pair.
Obj ==
    [text |-> "{}", keys |-> {}, eventType |-> "", event_type |-> "", type |-> "",
     asset_id |-> "", token_id |-> "", market |-> "", hash |-> "",
     timestamp |-> [str |-> FALSE, text |-> <<>>],
     buys |-> <<>>, sells |-> <<>>, bids |-> <<>>, asks |-> <<>>, price_changes |-> <<>>]

Level(price, size) == [dict |-> TRUE, keys |-> {"price", "size"}, price |-> price, size |-> size]
L_048_30 == Level(<<"0", ".", "4", "8">>, <<"3", "0">>)
L_052_125 == Level(<<"0", ".", "5", "2">>, <<"1", "2", ".", "5">>)
L_noprice == [dict |-> TRUE, keys |-> {"size"}, price |-> <<>>, size |-> <<"7">>]
L_pair == [dict |-> FALSE, keys |-> {}, price |-> <<"0", ".", "5", "5">>, size |-> <<"4">>]
L_badprice == Level(<<"a", "b", "c">>, <<"3", "0">>)

Change(asset, price, side) ==
    [keys |-> {"asset_id", "price", "size", "side", "best_bid"}, asset_id |-> asset,
     best_bid |-> "0.47", best_ask |-> "", price |-> price, size |-> "30", side |-> side]

T_1700000000 == <<"1", "7", "0", "0", "0", "0", "0", "0", "0", "0">>
T_1600000250 == <<"1", "6", "0", "0", "0", "0", "0", "2", "5", "0">>
T_1600000250_5 == <<"1", "6", "0", "0", "0", "0", "0", "2", "5", "0", ".", "5">>

Pong == [Obj EXCEPT !.text = "PONG"]
NotJson == [Obj EXCEPT !.text = "not json"]
JsonArray == [Obj EXCEPT !.text = "[]"]
Subscribed == [Obj EXCEPT !.keys = {"type"}, !.type = "subscribed"]
ErrorNotice == [Obj EXCEPT !.keys = {"type"}, !.type = "error"]
Unclassified == [Obj EXCEPT !.keys = {"market"}, !.market = "M1"]
Book ==
    [Obj EXCEPT !.keys = {"eventType", "asset_id", "market", "timestamp", "buys", "sells", "hash"},
                !.eventType = "book", !.asset_id = "T1", !.market = "M1", !.hash = "h1",
                !.timestamp = [str |-> TRUE, text |-> T_1700000000],
                !.buys = <<L_048_30>>]
BookNoTimestamp ==
    [Obj EXCEPT !.keys = {"event_type", "asset_id", "buys", "sells"},
                !.event_type = "book", !.asset_id = "T1",
                !.buys = <<L_noprice, L_048_30>>, !.sells = <<L_052_125, L_pair>>]
BookOther == [Book EXCEPT !.asset_id = "T9"]
BookBadLevel == [Book EXCEPT !.buys = <<L_048_30, L_badprice>>]
Raw ==
    [Obj EXCEPT !.keys = {"asset_id", "bids", "asks"}, !.asset_id = "T2",
                !.bids = <<L_048_30>>, !.asks = <<L_052_125>>]
RawOther == [Raw EXCEPT !.asset_id = "T9"]
PriceChange ==
    [Obj EXCEPT !.keys = {"event_type", "market", "timestamp", "price_changes"},
                !.event_type = "price_change", !.market = "M1",
                !.timestamp = [str |-> FALSE, text |-> T_1600000250],
                !.price_changes = <<Change("T1", "0.48", "BUY"), Change("T9", "0.10", "BUY"),
                                    Change("T2", "0.52", "SELL")>>]
PriceChangeCamel ==
    [PriceChange EXCEPT !.keys = {"eventType", "market", "timestamp", "price_changes"},
                        !.eventType = "price_change", !.event_type = ""]

PriceChangeFraction ==
    [PriceChange EXCEPT !.timestamp = [str |-> TRUE, text |-> T_1600000250_5]]

Messages ==
    {Pong, NotJson, JsonArray, Subscribed, ErrorNotice, Unclassified, Book, BookNoTimestamp,
     BookOther, BookBadLevel, Raw, RawOther, PriceChange, PriceChangeCamel, PriceChangeFraction}

\* ---------------------------------------------------- message conversions
\* Text is a sequence of characters. A character of ASCII or Latin-1 is
\* itself, a one-character string; any character is also written by the
\* name of its code point, "U+000B" or "U+0663", the only way to write one
\* beyond Latin-1. A conversion gives [ok |-> TRUE, v |-> value] or, where
\* Python raises, ok = FALSE.
\*
\* The decimal digits of every script (the characters of the Unicode category
\* Nd), a row for each script, zero to nine: int() and float() read them all.
DecimalDigits ==
    << <<"0", "1", "2", "3", "4", "5", "6", "7", "8", "9">>,
       <<"U+0660", "U+0661", "U+0662", "U+0663", "U+0664", "U+0665", "U+0666", "U+0667", "U+0668", "U+0669">>,
       <<"U+06F0", "U+06F1", "U+06F2", "U+06F3", "U+06F4", "U+06F5", "U+06F6", "U+06F7", "U+06F8", "U+06F9">>,
       <<"U+07C0", "U+07C1", "U+07C2", "U+07C3", "U+07C4", "U+07C5", "U+07C6", "U+07C7", "U+07C8", "U+07C9">>,
       <<"U+0966", "U+0967", "U+0968", "U+0969", "U+096A", "U+096B", "U+096C", "U+096D", "U+096E", "U+096F">>,
       <<"U+09E6", "U+09E7", "U+09E8", "U+09E9", "U+09EA", "U+09EB", "U+09EC", "U+09ED", "U+09EE", "U+09EF">>,
       <<"U+0A66", "U+0A67", "U+0A68", "U+0A69", "U+0A6A", "U+0A6B", "U+0A6C", "U+0A6D", "U+0A6E", "U+0A6F">>,
       <<"U+0AE6", "U+0AE7", "U+0AE8", "U+0AE9", "U+0AEA", "U+0AEB", "U+0AEC", "U+0AED", "U+0AEE", "U+0AEF">>,
       <<"U+0B66", "U+0B67", "U+0B68", "U+0B69", "U+0B6A", "U+0B6B", "U+0B6C", "U+0B6D", "U+0B6E", "U+0B6F">>,
       <<"U+0BE6", "U+0BE7", "U+0BE8", "U+0BE9", "U+0BEA", "U+0BEB", "U+0BEC", "U+0BED", "U+0BEE", "U+0BEF">>,
       <<"U+0C66", "U+0C67", "U+0C68", "U+0C69", "U+0C6A", "U+0C6B", "U+0C6C", "U+0C6D", "U+0C6E", "U+0C6F">>,
       <<"U+0CE6", "U+0CE7", "U+0CE8", "U+0CE9", "U+0CEA", "U+0CEB", "U+0CEC", "U+0CED", "U+0CEE", "U+0CEF">>,
       <<"U+0D66", "U+0D67", "U+0D68", "U+0D69", "U+0D6A", "U+0D6B", "U+0D6C", "U+0D6D", "U+0D6E", "U+0D6F">>,
       <<"U+0DE6", "U+0DE7", "U+0DE8", "U+0DE9", "U+0DEA", "U+0DEB", "U+0DEC", "U+0DED", "U+0DEE", "U+0DEF">>,
       <<"U+0E50", "U+0E51", "U+0E52", "U+0E53", "U+0E54", "U+0E55", "U+0E56", "U+0E57", "U+0E58", "U+0E59">>,
       <<"U+0ED0", "U+0ED1", "U+0ED2", "U+0ED3", "U+0ED4", "U+0ED5", "U+0ED6", "U+0ED7", "U+0ED8", "U+0ED9">>,
       <<"U+0F20", "U+0F21", "U+0F22", "U+0F23", "U+0F24", "U+0F25", "U+0F26", "U+0F27", "U+0F28", "U+0F29">>,
       <<"U+1040", "U+1041", "U+1042", "U+1043", "U+1044", "U+1045", "U+1046", "U+1047", "U+1048", "U+1049">>,
       <<"U+1090", "U+1091", "U+1092", "U+1093", "U+1094", "U+1095", "U+1096", "U+1097", "U+1098", "U+1099">>,
       <<"U+17E0", "U+17E1", "U+17E2", "U+17E3", "U+17E4", "U+17E5", "U+17E6", "U+17E7", "U+17E8", "U+17E9">>,
       <<"U+1810", "U+1811", "U+1812", "U+1813", "U+1814", "U+1815", "U+1816", "U+1817", "U+1818", "U+1819">>,
       <<"U+1946", "U+1947", "U+1948", "U+1949", "U+194A", "U+194B", "U+194C", "U+194D", "U+194E", "U+194F">>,
       <<"U+19D0", "U+19D1", "U+19D2", "U+19D3", "U+19D4", "U+19D5", "U+19D6", "U+19D7", "U+19D8", "U+19D9">>,
       <<"U+1A80", "U+1A81", "U+1A82", "U+1A83", "U+1A84", "U+1A85", "U+1A86", "U+1A87", "U+1A88", "U+1A89">>,
       <<"U+1A90", "U+1A91", "U+1A92", "U+1A93", "U+1A94", "U+1A95", "U+1A96", "U+1A97", "U+1A98", "U+1A99">>,
       <<"U+1B50", "U+1B51", "U+1B52", "U+1B53", "U+1B54", "U+1B55", "U+1B56", "U+1B57", "U+1B58", "U+1B59">>,
       <<"U+1BB0", "U+1BB1", "U+1BB2", "U+1BB3", "U+1BB4", "U+1BB5", "U+1BB6", "U+1BB7", "U+1BB8", "U+1BB9">>,
       <<"U+1C40", "U+1C41", "U+1C42", "U+1C43", "U+1C44", "U+1C45", "U+1C46", "U+1C47", "U+1C48", "U+1C49">>,
       <<"U+1C50", "U+1C51", "U+1C52", "U+1C53", "U+1C54", "U+1C55", "U+1C56", "U+1C57", "U+1C58", "U+1C59">>,
       <<"U+A620", "U+A621", "U+A622", "U+A623", "U+A624", "U+A625", "U+A626", "U+A627", "U+A628", "U+A629">>,
       <<"U+A8D0", "U+A8D1", "U+A8D2", "U+A8D3", "U+A8D4", "U+A8D5", "U+A8D6", "U+A8D7", "U+A8D8", "U+A8D9">>,
       <<"U+A900", "U+A901", "U+A902", "U+A903", "U+A904", "U+A905", "U+A906", "U+A907", "U+A908", "U+A909">>,
       <<"U+A9D0", "U+A9D1", "U+A9D2", "U+A9D3", "U+A9D4", "U+A9D5", "U+A9D6", "U+A9D7", "U+A9D8", "U+A9D9">>,
       <<"U+A9F0", "U+A9F1", "U+A9F2", "U+A9F3", "U+A9F4", "U+A9F5", "U+A9F6", "U+A9F7", "U+A9F8", "U+A9F9">>,
       <<"U+AA50", "U+AA51", "U+AA52", "U+AA53", "U+AA54", "U+AA55", "U+AA56", "U+AA57", "U+AA58", "U+AA59">>,
       <<"U+ABF0", "U+ABF1", "U+ABF2", "U+ABF3", "U+ABF4", "U+ABF5", "U+ABF6", "U+ABF7", "U+ABF8", "U+ABF9">>,
       <<"U+FF10", "U+FF11", "U+FF12", "U+FF13", "U+FF14", "U+FF15", "U+FF16", "U+FF17", "U+FF18", "U+FF19">>,
       <<"U+104A0", "U+104A1", "U+104A2", "U+104A3", "U+104A4", "U+104A5", "U+104A6", "U+104A7", "U+104A8", "U+104A9">>,
       <<"U+10D30", "U+10D31", "U+10D32", "U+10D33", "U+10D34", "U+10D35", "U+10D36", "U+10D37", "U+10D38", "U+10D39">>,
       <<"U+11066", "U+11067", "U+11068", "U+11069", "U+1106A", "U+1106B", "U+1106C", "U+1106D", "U+1106E", "U+1106F">>,
       <<"U+110F0", "U+110F1", "U+110F2", "U+110F3", "U+110F4", "U+110F5", "U+110F6", "U+110F7", "U+110F8", "U+110F9">>,
       <<"U+11136", "U+11137", "U+11138", "U+11139", "U+1113A", "U+1113B", "U+1113C", "U+1113D", "U+1113E", "U+1113F">>,
       <<"U+111D0", "U+111D1", "U+111D2", "U+111D3", "U+111D4", "U+111D5", "U+111D6", "U+111D7", "U+111D8", "U+111D9">>,
       <<"U+112F0", "U+112F1", "U+112F2", "U+112F3", "U+112F4", "U+112F5", "U+112F6", "U+112F7", "U+112F8", "U+112F9">>,
       <<"U+11450", "U+11451", "U+11452", "U+11453", "U+11454", "U+11455", "U+11456", "U+11457", "U+11458", "U+11459">>,
       <<"U+114D0", "U+114D1", "U+114D2", "U+114D3", "U+114D4", "U+114D5", "U+114D6", "U+114D7", "U+114D8", "U+114D9">>,
       <<"U+11650", "U+11651", "U+11652", "U+11653", "U+11654", "U+11655", "U+11656", "U+11657", "U+11658", "U+11659">>,
       <<"U+116C0", "U+116C1", "U+116C2", "U+116C3", "U+116C4", "U+116C5", "U+116C6", "U+116C7", "U+116C8", "U+116C9">>,
       <<"U+11730", "U+11731", "U+11732", "U+11733", "U+11734", "U+11735", "U+11736", "U+11737", "U+11738", "U+11739">>,
       <<"U+118E0", "U+118E1", "U+118E2", "U+118E3", "U+118E4", "U+118E5", "U+118E6", "U+118E7", "U+118E8", "U+118E9">>,
       <<"U+11950", "U+11951", "U+11952", "U+11953", "U+11954", "U+11955", "U+11956", "U+11957", "U+11958", "U+11959">>,
       <<"U+11C50", "U+11C51", "U+11C52", "U+11C53", "U+11C54", "U+11C55", "U+11C56", "U+11C57", "U+11C58", "U+11C59">>,
       <<"U+11D50", "U+11D51", "U+11D52", "U+11D53", "U+11D54", "U+11D55", "U+11D56", "U+11D57", "U+11D58", "U+11D59">>,
       <<"U+11DA0", "U+11DA1", "U+11DA2", "U+11DA3", "U+11DA4", "U+11DA5", "U+11DA6", "U+11DA7", "U+11DA8", "U+11DA9">>,
       <<"U+16A60", "U+16A61", "U+16A62", "U+16A63", "U+16A64", "U+16A65", "U+16A66", "U+16A67", "U+16A68", "U+16A69">>,
       <<"U+16AC0", "U+16AC1", "U+16AC2", "U+16AC3", "U+16AC4", "U+16AC5", "U+16AC6", "U+16AC7", "U+16AC8", "U+16AC9">>,
       <<"U+16B50", "U+16B51", "U+16B52", "U+16B53", "U+16B54", "U+16B55", "U+16B56", "U+16B57", "U+16B58", "U+16B59">>,
       <<"U+1D7CE", "U+1D7CF", "U+1D7D0", "U+1D7D1", "U+1D7D2", "U+1D7D3", "U+1D7D4", "U+1D7D5", "U+1D7D6", "U+1D7D7">>,
       <<"U+1D7D8", "U+1D7D9", "U+1D7DA", "U+1D7DB", "U+1D7DC", "U+1D7DD", "U+1D7DE", "U+1D7DF", "U+1D7E0", "U+1D7E1">>,
       <<"U+1D7E2", "U+1D7E3", "U+1D7E4", "U+1D7E5", "U+1D7E6", "U+1D7E7", "U+1D7E8", "U+1D7E9", "U+1D7EA", "U+1D7EB">>,
       <<"U+1D7EC", "U+1D7ED", "U+1D7EE", "U+1D7EF", "U+1D7F0", "U+1D7F1", "U+1D7F2", "U+1D7F3", "U+1D7F4", "U+1D7F5">>,
       <<"U+1D7F6", "U+1D7F7", "U+1D7F8", "U+1D7F9", "U+1D7FA", "U+1D7FB", "U+1D7FC", "U+1D7FD", "U+1D7FE", "U+1D7FF">>,
       <<"U+1E140", "U+1E141", "U+1E142", "U+1E143", "U+1E144", "U+1E145", "U+1E146", "U+1E147", "U+1E148", "U+1E149">>,
       <<"U+1E2F0", "U+1E2F1", "U+1E2F2", "U+1E2F3", "U+1E2F4", "U+1E2F5", "U+1E2F6", "U+1E2F7", "U+1E2F8", "U+1E2F9">>,
       <<"U+1E950", "U+1E951", "U+1E952", "U+1E953", "U+1E954", "U+1E955", "U+1E956", "U+1E957", "U+1E958", "U+1E959">>,
       <<"U+1FBF0", "U+1FBF1", "U+1FBF2", "U+1FBF3", "U+1FBF4", "U+1FBF5", "U+1FBF6", "U+1FBF7", "U+1FBF8", "U+1FBF9">> >>

Digits == UNION {{DecimalDigits[r][i] : i \in 1..10} : r \in 1..Len(DecimalDigits)}

DigitValue(c) ==
    CASE c = "0" -> 0 [] c = "1" -> 1 [] c = "2" -> 2 [] c = "3" -> 3 [] c = "4" -> 4
      [] c = "5" -> 5 [] c = "6" -> 6 [] c = "7" -> 7 [] c = "8" -> 8 [] c = "9" -> 9
      [] OTHER -> CHOOSE d \in 0..9 : \E r \in 1..Len(DecimalDigits) : DecimalDigits[r][d + 1] = c

\* The white space int() and float() drop around their argument: the ASCII
\* space, tab, line feed, carriage return, form feed and vertical tab, the
\* next line and the no-break space of Latin-1 (the three written both as
\* themselves and by name) and the Unicode spaces.
Whitespace ==
    {" ", "\t", "\n", "\r", "\f", "", "", " ", "U+000B", "U+0085", "U+00A0", "U+1680",
     "U+2000", "U+2001", "U+2002", "U+2003", "U+2004", "U+2005", "U+2006", "U+2007", "U+2008",
     "U+2009", "U+200A", "U+2028", "U+2029", "U+202F", "U+205F", "U+3000"}

\* where the first and the last character of a text outside a set are (the
\* text is not all in the set)
first_outside(cs, set) ==
    CHOOSE i \in 1..Len(cs) : cs[i] \notin set /\ \A j \in 1..(i - 1) : cs[j] \in set
last_outside(cs, set) ==
    CHOOSE i \in 1..Len(cs) : cs[i] \notin set /\ \A j \in (i + 1)..Len(cs) : cs[j] \in set

lstrip(cs) ==
    IF \A i \in 1..Len(cs) : cs[i] \in Whitespace THEN <<>>
    ELSE SubSeq(cs, first_outside(cs, Whitespace), Len(cs))

rstrip(cs) ==
    IF \A i \in 1..Len(cs) : cs[i] \in Whitespace THEN <<>>
    ELSE SubSeq(cs, 1, last_outside(cs, Whitespace))

strip(cs) == rstrip(lstrip(cs))

\* A text read for a number is its characters cs and what each is in a
\* numeral, ps: the value of a digit, -1 for an underscore, -2 for any other.
place(c) == IF c = "_" THEN -1 ELSE IF c \in Digits THEN DigitValue(c) ELSE -2
read(cs) == [cs |-> cs, ps |-> [i \in 1..Len(cs) |-> place(cs[i])]]
slice(t, from, to) == [cs |-> SubSeq(t.cs, from, to), ps |-> SubSeq(t.ps, from, to)]

\* the optional sign of a numeral and the text after it
negative(t) == t.cs # <<>> /\ t.cs[1] = "-"
unsigned(t) == IF t.cs # <<>> /\ t.cs[1] \in {"+", "-"} THEN slice(t, 2, Len(t.cs)) ELSE t

\* decimal digits, single underscores allowed between two digits
IsNumeral(ps) ==
    /\ ps # <<>>
    /\ ps[1] >= 0
    /\ ps[Len(ps)] >= 0
    /\ \A i \in 1..Len(ps) : ps[i] >= 0 \/ (ps[i] = -1 /\ ps[i - 1] >= 0 /\ ps[i + 1] >= 0)

\* the values of the digits of a numeral
digits_of(ps) == SelectSeq(ps, LAMBDA d : d >= 0)

\* A natural number of any size is its limbs in base 2^15, the most
\* significant first and not 0, none for the number 0. The operations on
\* limbs split their work in halves or look ahead for the carry, so that
\* none of them is deeply nested whatever the size of the number.
Base == 2^15

Abs(x) == IF x < 0 THEN -x ELSE x

trim(a) ==
    IF \A i \in 1..Len(a) : a[i] = 0 THEN <<>> ELSE SubSeq(a, first_outside(a, {0}), Len(a))

last(a) == IF a = <<>> THEN 0 ELSE a[Len(a)]
front(a) == IF a = <<>> THEN <<>> ELSE SubSeq(a, 1, Len(a) - 1)
zeros(n) == [i \in 1..n |-> 0]
odd(a) == last(a) % 2 = 1

\* limb i of n of a number, the last of the n being its last
limb_at(a, i, n) == IF i > n - Len(a) THEN a[i - (n - Len(a))] ELSE 0

\* the limbs of sums s[i] below 2 * Base: a carry comes into a place from
\* the nearest place after it that is not Base - 1, if that one overflows
carry_into(s, i) ==
    IF i < Len(s) /\ s[i + 1] # Base - 1 THEN s[i + 1] >= Base
    ELSE \E j \in (i + 1)..Len(s) : s[j] >= Base /\ \A l \in (i + 1)..(j - 1) : s[l] = Base - 1
carried(s) == trim([i \in 1..Len(s) |-> (s[i] + IF carry_into(s, i) THEN 1 ELSE 0) % Base])

\* the limbs of differences d[i] from -Base on, of a number that is not
\* negative: a place borrows for the nearest place after it that is not 0,
\* if that one is negative
borrow_from(d, i) ==
    IF i < Len(d) /\ d[i + 1] # 0 THEN d[i + 1] < 0
    ELSE \E j \in (i + 1)..Len(d) : d[j] < 0 /\ \A l \in (i + 1)..(j - 1) : d[l] = 0
borrowed(d) ==
    trim([i \in 1..Len(d) |-> (d[i] - (IF borrow_from(d, i) THEN 1 ELSE 0) + Base) % Base])

\* a * k + c, for k and c below Base
times(a, k, c) ==
    carried([i \in 1..(Len(a) + 1) |->
                (IF i = 1 THEN 0 ELSE (a[i - 1] * k) % Base)
                    + (IF i = Len(a) + 1 THEN c ELSE (a[i] * k) \div Base)])

\* a + b + c and, for a >= b + c, a - b - c (c a carry of 0 or 1)
sums(a, b, c, n) ==
    [i \in 1..n |-> limb_at(a, i, n) + limb_at(b, i, n) + (IF i = n THEN c ELSE 0)]
plus(a, b, c) == carried(sums(a, b, c, Max(Len(a), Len(b)) + 1))

minus(a, b, c) ==
    borrowed([i \in 1..Len(a) |->
                 a[i] - limb_at(b, i, Len(a)) - (IF i = Len(a) THEN c ELSE 0)])

\* the quotient, a limb for each limb of a, and the remainder of
\* (r * Base^Len(a) + a) by k, for r below k and k at most Base
RECURSIVE long_division(_, _, _)
joined(q, d) == [q |-> q \o d.q, r |-> d.r]
continued(high, low, k) == joined(high.q, long_division(low, k, high.r))
long_division(a, k, r) ==
    IF a = <<>> THEN [q |-> <<>>, r |-> r]
    ELSE IF Len(a) = 1
    THEN [q |-> <<(r * Base + a[1]) \div k>>, r |-> (r * Base + a[1]) % k]
    ELSE continued(long_division(SubSeq(a, 1, Len(a) \div 2), k, r),
                   SubSeq(a, Len(a) \div 2 + 1, Len(a)), k)

\* the quotient and the remainder of a by k, for k at most Base
trimmed(d) == [q |-> trim(d.q), r |-> d.r]
divided(a, k) == trimmed(long_division(a, k, 0))

halved(a) == divided(a, 2).q

less(a, b) ==
    \/ Len(a) < Len(b)
    \/ /\ Len(a) = Len(b)
       /\ \E i \in 1..Len(a) : a[i] < b[i] /\ \A j \in 1..(i - 1) : a[j] = b[j]

RECURSIVE bits(_)
bits(n) == IF n = 0 THEN 0 ELSE 1 + bits(n \div 2)

bit_length(a) == IF a = <<>> THEN 0 ELSE 15 * (Len(a) - 1) + bits(a[1])

\* a * 2^n, and a / 2^n with whether bits were lost
shifted_left(a, n) == IF a = <<>> THEN <<>> ELSE times(a, 2^(n % 15), 0) \o zeros(n \div 15)

shifted_right_by(d, lost) == [q |-> d.q, sticky |-> d.r # 0 \/ lost]
shifted_right(a, n) ==
    shifted_right_by(divided(SubSeq(a, 1, Len(a) - n \div 15), 2^(n % 15)),
                     \E i \in (Len(a) - n \div 15 + 1)..Len(a) : i >= 1 /\ a[i] # 0)

\* the limbs of a small number and the small number of limbs
RECURSIVE limbs(_)
limbs(n) == IF n = 0 THEN <<>> ELSE Append(limbs(n \div Base), n % Base)

RECURSIVE small(_)
small(a) == IF a = <<>> THEN 0 ELSE small(front(a)) * Base + last(a)

\* the value of a few digits
RECURSIVE digits_value(_, _)
digits_value(cs, acc) ==
    IF cs = <<>> THEN acc ELSE digits_value(Tail(cs), 10 * acc + Head(cs))

RECURSIVE Pow10(_)
Pow10(n) == IF n = 0 THEN 1 ELSE 10 * Pow10(n - 1)

\* a * 10^n
RECURSIVE times10(_, _)
times10(a, n) ==
    IF a = <<>> THEN <<>>
    ELSE IF n <= 4 THEN times(a, Pow10(n), 0)
    ELSE times10(times10(a, n \div 2), n - n \div 2)

\* the number written with the decimal digits of values ds
RECURSIVE natural(_)
natural(ds) ==
    IF Len(ds) <= 9 THEN limbs(digits_value(ds, 0))
    ELSE plus(times10(natural(SubSeq(ds, 1, Len(ds) \div 2)), Len(ds) - Len(ds) \div 2),
              natural(SubSeq(ds, Len(ds) \div 2 + 1, Len(ds))), 0)

\* a / 10^n, with whether a remainder was lost
RECURSIVE divide10(_, _)
lost(d, sticky) == [q |-> d.q, sticky |-> sticky \/ d.r # 0]
also_lost(d, sticky) == [q |-> d.q, sticky |-> sticky \/ d.sticky]
divide10_more(first, n) == also_lost(divide10(first.q, n), first.sticky)
divide10(a, n) ==
    IF a = <<>> THEN [q |-> <<>>, sticky |-> FALSE]
    ELSE IF n <= 4 THEN lost(divided(a, Pow10(n)), FALSE)
    ELSE divide10_more(divide10(a, n \div 2), n - n \div 2)

\* A Python int, of any size: its sign and its magnitude (zero is not
\* negative).
PyInt(neg, n) == [neg |-> neg /\ n # <<>>, n |-> n]

ValueError == [ok |-> FALSE, v |-> PyInt(FALSE, <<>>)]

\* (a numeral of more than 4300 digits, leading zeros counted, is refused:
\* the default of sys.set_int_max_str_digits)
int_unsigned(neg, body) ==
    IF ~IsNumeral(body.ps) \/ Len(digits_of(body.ps)) > 4300 THEN ValueError
    ELSE [ok |-> TRUE, v |-> PyInt(neg, natural(digits_of(body.ps)))]

\* The numerals the inputs carry: their conversions are worked out once and
\* looked up, those of any other text are worked out when asked for.
LevelsOf(m) == Range(m.buys) \cup Range(m.sells) \cup Range(m.bids) \cup Range(m.asks)
Numerals ==
    {p.text : p \in DisplayPrices} \cup {m.timestamp.text : m \in Messages}
        \cup UNION {{b.price, b.size} : b \in UNION {LevelsOf(m) : m \in Messages}}

\* int(text): surrounding white space, an optional sign, a numeral
int_stripped(t) == int_unsigned(negative(t), unsigned(t))
int_of_text(cs) == int_stripped(read(strip(cs)))
Ints == [cs \in Numerals |-> int_of_text(cs)]
int(cs) == IF cs \in Numerals THEN Ints[cs] ELSE int_of_text(cs)

\* A float is a binary64 value: an infinity, a NaN, or m * 2^e with its sign,
\* m odd and below 2^53, e from -1074 to 1023 (a zero: m without limbs and
\* e = 0). Float, Zero, Infinity and NaN are defined with the inputs above.
FloatError == [ok |-> FALSE, v |-> Zero]

\* m * 2^e with m odd: without the limbs and the bits that are 0 at its end
RECURSIVE twos(_)
twos(n) == IF n % 2 = 1 THEN 0 ELSE 1 + twos(n \div 2)

odd_from(neg, m, e, limb, bit) ==
    Float(neg, divided(SubSeq(m, 1, limb), 2^bit).q, e + 15 * (Len(m) - limb) + bit)
odd_to(neg, m, e, limb) == odd_from(neg, m, e, limb, twos(m[limb]))
odd_part(neg, m, e) ==
    IF m = <<>> THEN Float(neg, <<>>, 0) ELSE odd_to(neg, m, e, last_outside(m, {0}))

\* the float m * 2^e, for m of at most 53 bits (or 2^53) and e from -1074 on:
\* an infinity from 2^1024 on
finite(neg, m, e) ==
    IF bit_length(m) + e > 1024 THEN Infinity(neg) ELSE odd_part(neg, m, e)

\* the lowest bit a float near n * 2^e keeps: it has 53 bits and none below
\* 2^-1074
lowest_bit(n, e) == Max(e + bit_length(n) - 53, -1074)

\* round-half-even: h and a half more (if half) and a little more (if more)
round_up(h, half, more) == IF half /\ (more \/ odd(h)) THEN plus(h, <<1>>, 0) ELSE h

\* round-half-even of r.q, whose last bit is the one below the lowest kept,
\* with whether bits below that one were lost
round_half_even(r, sticky) == round_up(halved(r.q), odd(r.q), r.sticky \/ sticky)

\* the float nearest to n * 2^e (and a little more, if sticky), ties to even
kept(n, e, sticky, lowest) ==
    IF lowest <= e THEN n ELSE round_half_even(shifted_right(n, lowest - e - 1), sticky)
rounded_to(neg, n, e, sticky, lowest) == finite(neg, kept(n, e, sticky, lowest), Max(lowest, e))
rounded(neg, n, e, sticky) == rounded_to(neg, n, e, sticky, lowest_bit(n, e))

no_leading_zeros(ds) ==
    IF \A i \in 1..Len(ds) : ds[i] = 0 THEN <<>> ELSE SubSeq(ds, first_outside(ds, {0}), Len(ds))

no_trailing_zeros(ds) ==
    IF \A i \in 1..Len(ds) : ds[i] = 0 THEN <<>> ELSE SubSeq(ds, 1, last_outside(ds, {0}))

\* the limbs a decimal is shifted left by before it is divided by 10^k, so
\* that the quotient has the bits the rounding needs: 60 at least, and bits
\* below 2^-1074 for a value that may be subnormal
guard_limbs(k, adjusted) ==
    IF adjusted < -290 THEN 72 ELSE Min(72, (60 + 4 * k) \div 15 + 1)

\* n * 10^e as q * 2^e, exactly or with a remainder lost
with_exponent(d, e) == [q |-> d.q, e |-> e, sticky |-> d.sticky]
in_binary_from(n, e, guard) == with_exponent(divide10(n \o zeros(guard), -e), -15 * guard)
in_binary(n, e, adjusted) ==
    IF e >= 0 THEN [q |-> times10(n, e), e |-> 0, sticky |-> FALSE]
    ELSE in_binary_from(n, e, guard_limbs(-e, adjusted))

binary_rounded(neg, b) == rounded(neg, b.q, b.e, b.sticky)

\* the float nearest to ds * 10^e, for digits ds that neither begin nor end
\* with a zero: an infinity beyond the largest finite value, a zero below
\* half the smallest subnormal
significant(neg, ds, e) ==
    IF ds = <<>> THEN Float(neg, <<>>, 0)
    ELSE IF e + Len(ds) - 1 > 308 THEN Infinity(neg)
    ELSE IF e + Len(ds) - 1 < -324 THEN Float(neg, <<>>, 0)
    ELSE binary_rounded(neg, in_binary(natural(ds), e, e + Len(ds) - 1))

\* the float nearest to digits * 10^e
without_zeros(neg, digits, e, ds) ==
    significant(neg, no_leading_zeros(ds), e + Len(digits) - Len(ds))
decimal(neg, digits, e) == without_zeros(neg, digits, e, no_trailing_zeros(digits))

lower(c) ==
    CASE c = "I" -> "i" [] c = "N" -> "n" [] c = "F" -> "f" [] c = "T" -> "t"
      [] c = "Y" -> "y" [] c = "A" -> "a" [] OTHER -> c

lowered(cs) == [i \in 1..Len(cs) |-> lower(cs[i])]

\* where the first of the marks is in a text (past its end: nowhere)
first_of(cs, marks) ==
    IF \A i \in 1..Len(cs) : cs[i] \notin marks THEN Len(cs) + 1
    ELSE CHOOSE i \in 1..Len(cs) : cs[i] \in marks /\ \A j \in 1..(i - 1) : cs[j] \notin marks

\* the exponent written with digits that have no leading zeros: one of more
\* than 9 digits counts as 1100000000
exponent_value(negative_exponent, exponent) ==
    IF negative_exponent
    THEN -(IF Len(exponent) > 9 THEN 1100000000 ELSE digits_value(exponent, 0))
    ELSE IF Len(exponent) > 9 THEN 1100000000 ELSE digits_value(exponent, 0)

\* the float of a number given by the digits around its point and its
\* exponent; more than 10^9 digits after the leading zeros, or after the
\* point, are refused
float_digits(neg, whole, frac, negative_exponent, exponent) ==
    IF Len(no_leading_zeros(whole \o frac)) > 1000000000 \/ Len(frac) > 1000000000
    THEN FloatError
    ELSE [ok |-> TRUE,
          v |-> decimal(neg, whole \o frac,
                        exponent_value(negative_exponent, exponent) - Len(frac))]

\* the float of a number given by the numerals around its point and its
\* exponent, if it has one
float_parts(neg, whole, frac, has_exponent, negative_exponent, exponent) ==
    IF ~( /\ whole = <<>> \/ IsNumeral(whole)
          /\ frac = <<>> \/ IsNumeral(frac)
          /\ whole # <<>> \/ frac # <<>>
          /\ ~has_exponent \/ IsNumeral(exponent) )
    THEN FloatError
    ELSE float_digits(neg, digits_of(whole), digits_of(frac), negative_exponent,
                      no_leading_zeros(digits_of(exponent)))

float_pointed(neg, mantissa, point, has_exponent, exponent) ==
    float_parts(neg, SubSeq(mantissa.ps, 1, point - 1),
                SubSeq(mantissa.ps, point + 1, Len(mantissa.ps)),
                has_exponent, negative(exponent), unsigned(exponent).ps)

float_mantissa(neg, mantissa, has_exponent, exponent) ==
    float_pointed(neg, mantissa, first_of(mantissa.cs, {"."}), has_exponent, exponent)

float_exponent(neg, body, e) ==
    float_mantissa(neg, slice(body, 1, e - 1), e <= Len(body.cs), slice(body, e + 1, Len(body.cs)))

float_number(neg, body) == float_exponent(neg, body, first_of(body.cs, {"e", "E"}))

float_unsigned(neg, body) ==
    IF lowered(body.cs) \in {<<"i", "n", "f">>, <<"i", "n", "f", "i", "n", "i", "t", "y">>}
    THEN [ok |-> TRUE, v |-> Infinity(neg)]
    ELSE IF lowered(body.cs) = <<"n", "a", "n">> THEN [ok |-> TRUE, v |-> NaN]
    ELSE float_number(neg, body)

\* float(text): surrounding white space, an optional sign, then "inf",
\* "infinity" or "nan" in any case, or numerals around an optional point
\* (one of the two may be missing) and an optional exponent
float_stripped(t) == float_unsigned(negative(t), unsigned(t))
float_of_text(cs) == float_stripped(read(strip(cs)))
Floats == [cs \in Numerals |-> float_of_text(cs)]
float(cs) == IF cs \in Numerals THEN Floats[cs] ELSE float_of_text(cs)

\* the whole part of a finite float's magnitude
whole_part(x) == IF x.e >= 0 THEN shifted_left(x.m, x.e) ELSE shifted_right(x.m, -x.e).q

\* int(x) of a float: the whole part towards zero, an error for an
\* infinity (OverflowError) or a NaN (ValueError)
truncated(r) ==
    IF ~r.ok \/ r.v.k # "num" THEN ValueError
    ELSE [ok |-> TRUE, v |-> PyInt(r.v.neg, whole_part(r.v))]

\* json.loads of a number: an int for an integer literal, a float for one
\* with a fraction or an exponent and for Infinity and NaN
integer_literal(cs) ==
    \A i \in 1..Len(cs) : cs[i] \in {"-", "0", "1", "2", "3", "4", "5", "6", "7", "8", "9"}

\* a JSON value that is a string or a number, with the int of a string or of
\* an integer literal (json.loads makes the int with int(), which refuses a
\* literal of more than 4300 digits) and the float of any other number
loaded(value) ==
    IF value.str \/ integer_literal(value.text)
    THEN [str |-> value.str, int |-> TRUE, i |-> int(value.text), x |-> FloatError]
    ELSE [str |-> FALSE, int |-> FALSE, i |-> ValueError, x |-> float(value.text)]

\* int(value) of a string (int of its text) or a number (itself when it is
\* an int, its whole part when it is a float)
int_of(value) == IF value.int THEN value.i ELSE truncated(value.x)

\* "elif timestamp_ms:" of a number: any but zero
nonzero(x) == ~(x.k = "num" /\ x.m = <<>>)
truthy(value) == IF value.int THEN value.i.v.n # <<>> ELSE nonzero(value.x.v)

\* json.loads(message) of an object with the timestamp it has, if any:
\* ok FALSE where it raises the ValueError of int()
decoded(m, timestamp) ==
    [ok |-> "timestamp" \notin m.keys \/ timestamp.str \/ ~timestamp.int \/ timestamp.i.ok,
     timestamp |-> timestamp]
json_loads(m) == decoded(m, loaded(m.timestamp))

\* "i / 1000" of an int: the float nearest to the quotient, OverflowError
\* where that is beyond the floats
or_OverflowError(x) == [ok |-> x.k = "num", v |-> x]
quotient_float(neg, d) == or_OverflowError(rounded(neg, d.q, -75, d.r # 0))
true_divide(i, k) == quotient_float(i.neg, divided(i.n \o zeros(5), k))

\* A datetime is the time from 1970-01-01 00:00:00 to it, as a timedelta
\* holds one: days (negative before 1970), seconds of the day, microseconds of
\* the second. Local time is UTC.
Datetime(days, seconds, microseconds) ==
    [days |-> days, seconds |-> seconds, microseconds |-> microseconds]

DatetimeError == [ok |-> FALSE, v |-> Datetime(0, 0, 0)]

\* the fraction of a finite float's magnitude, in units of 2^e
fraction_part(x) ==
    IF x.e >= 0 THEN <<>> ELSE minus(x.m, shifted_left(whole_part(x), -x.e), 0)

\* the float "floatpart * 1e6" of the fraction of x
microseconds_float(x) ==
    rounded(FALSE, times(times(fraction_part(x), 1000, 0), 1000, 0), x.e, FALSE)

\* a float not negative rounded to a whole number, halves to the even one
round_to_whole(x) ==
    IF x.e >= 0 THEN shifted_left(x.m, x.e)
    ELSE round_half_even(shifted_right(x.m, -x.e - 1), FALSE)

\* the seconds (an int) and the microseconds 0..999999 of a float: the
\* rounded microseconds of a negative one are counted down from the second
\* below
Instant(neg, seconds, us) == [seconds |-> PyInt(neg, seconds), us |-> us]
seconds_and_microseconds(neg, whole, us) ==
    IF (~neg /\ us < 1000000) \/ (neg /\ us = 0) THEN Instant(neg, whole, us)
    ELSE Instant(neg, plus(whole, <<1>>, 0), 1000000 - us)

\* the first second and the second after the last second fromtimestamp
\* accepts: 0001-01-02 00:00:00 and 10000-01-01 00:00:00
MinSecond == natural(<<6, 2, 1, 3, 5, 5, 1, 0, 4, 0, 0>>)
EndSecond == natural(<<2, 5, 3, 4, 0, 2, 3, 0, 0, 8, 0, 0>>)

in_range(seconds) ==
    IF seconds.neg THEN ~less(MinSecond, seconds.n) ELSE less(seconds.n, EndSecond)

\* days and seconds of the day of n seconds (86400 = 128 * 675), after 1970
\* or before it
days_and_seconds(neg, days, seconds, us) ==
    IF ~neg THEN Datetime(days, seconds, us)
    ELSE IF seconds = 0 THEN Datetime(-days, 0, us)
    ELSE Datetime(-days - 1, 86400 - seconds, us)
by_675(neg, by128, by675, us) ==
    days_and_seconds(neg, small(by675.q), by675.r * 128 + by128.r, us)
by_128(neg, by128, us) == by_675(neg, by128, divided(by128.q, 675), us)

datetime_of(t) ==
    IF ~in_range(t.seconds) THEN DatetimeError
    ELSE [ok |-> TRUE, v |-> by_128(t.seconds.neg, divided(t.seconds.n, 128), t.us)]

\* datetime.fromtimestamp(x) of a float: OverflowError, OSError or ValueError
\* for an infinity, a NaN and an instant outside the years 1 to 9999
fromtimestamp(x) ==
    IF x.k # "num" \/ x.e + bit_length(x.m) > 63 THEN DatetimeError
    ELSE datetime_of(seconds_and_microseconds(x.neg, whole_part(x),
                                              small(round_to_whole(microseconds_float(x)))))

\* datetime.now(), and time.time() * 1000 truncated by int()
datetime_now == Datetime(now \div 86400, now % 86400, 0)
time_ms == PyInt(FALSE, times(limbs(now), 1000, 0))

\* x - y, abs(x) and x >= y of floats
aligned(x, e) == shifted_left(x.m, x.e - e)

common_exponent(x, y) ==
    IF x.m = <<>> THEN y.e ELSE IF y.m = <<>> THEN x.e ELSE Min(x.e, y.e)

\* a - b of two magnitudes with their signs: its sign and its magnitude
difference(a, aneg, b, bneg) ==
    IF aneg # bneg THEN [neg |-> aneg, n |-> plus(a, b, 0)]
    ELSE IF less(a, b) THEN [neg |-> ~aneg, n |-> minus(b, a, 0)]
    ELSE [neg |-> aneg /\ a # b, n |-> minus(a, b, 0)]

difference_rounded(d, e) == rounded(d.neg, d.n, e, FALSE)
float_sub_at(x, y, e) ==
    difference_rounded(difference(aligned(x, e), x.neg, aligned(y, e), y.neg), e)

float_sub(x, y) ==
    IF x.k = "nan" \/ y.k = "nan" THEN NaN
    ELSE IF x.k = "inf" THEN IF y.k = "inf" /\ x.neg = y.neg THEN NaN ELSE x
    ELSE IF y.k = "inf" THEN Infinity(~y.neg)
    ELSE float_sub_at(x, y, common_exponent(x, y))

float_abs(x) == [x EXCEPT !.neg = FALSE]

\* whether the magnitude of a finite x is below that of a finite y
magnitude_less_at(x, y, e) == less(aligned(x, e), aligned(y, e))
magnitude_less(x, y) ==
    IF y.m = <<>> THEN FALSE
    ELSE IF x.m = <<>> THEN TRUE
    ELSE IF x.e + bit_length(x.m) # y.e + bit_length(y.m)
    THEN x.e + bit_length(x.m) < y.e + bit_length(y.m)
    ELSE magnitude_less_at(x, y, Min(x.e, y.e))

\* x < y of two floats that are no NaN
float_lt(x, y) ==
    IF x.k = "inf" THEN x.neg /\ ~(y.k = "inf" /\ y.neg)
    ELSE IF y.k = "inf" THEN ~y.neg
    ELSE IF x.neg # y.neg THEN x.neg /\ (x.m # <<>> \/ y.m # <<>>)
    ELSE magnitude_less(IF x.neg THEN y ELSE x, IF x.neg THEN x ELSE y)

float_ge(x, y) == x.k # "nan" /\ y.k # "nan" /\ ~float_lt(x, y)

\* ------------------------------------------------------------ on_message
\* d.get(k, default)
get(d, k, default) == IF k \in d.keys THEN d[k] ELSE default

\* what one on_message call did: the callback invocations it made, in order,
\* the line it logged last, whether an exception left it
Handled(calls, log) == [calls |-> calls, log |-> log, raised |-> FALSE]

\* a handler that lets the decoding error out
except_JSONDecodeError_reraise == [calls |-> <<>>, log |-> "", raised |-> TRUE]

\* "except json.JSONDecodeError: logger.warning(...)"
except_JSONDecodeError == Handled(<<>>, "Failed to parse WebSocket message")

\* "float(b.get("price", 0))", "float(b.get("size", 0))"
level_float(b, key) == IF key \in b.keys THEN float(b[key]) ELSE [ok |-> TRUE, v |-> Zero]

\* the price and the size of every level as the list comprehensions take
\* them: "(float(...), float(...)) if isinstance(b, dict) else b"
floats_of(levels) ==
    [i \in 1..Len(levels) |->
        [key \in {"price", "size"} |->
            IF levels[i].dict THEN level_float(levels[i], key)
            ELSE [ok |-> TRUE, v |-> levels[i][key]]]]

\* the (price, size) tuples of converted levels, and whether a conversion raised
to_tuples(fs) == [i \in 1..Len(fs) |-> <<fs[i].price.v, fs[i].size.v>>]
tuples_raise(fs) == \E i \in 1..Len(fs) : ~fs[i].price.ok \/ ~fs[i].size.ok

\* "datetime.fromtimestamp(int(timestamp_ms) / 1000)"
fromtimestamp_of(quotient) ==
    IF ~quotient.ok THEN DatetimeError ELSE fromtimestamp(quotient.v)
stamped(ms) ==
    IF ~ms.ok THEN DatetimeError ELSE fromtimestamp_of(true_divide(ms.v, 1000))

\* the timestamp of a "book" event: the message's if it is a string or is
\* truthy, the clock's otherwise
timestamp_or_now(value) ==
    IF value.str \/ truthy(value) THEN stamped(int_of(value))
    ELSE [ok |-> TRUE, v |-> datetime_now]
book_timestamp(m, timestamp_ms) ==
    IF "timestamp" \in m.keys THEN timestamp_or_now(timestamp_ms)
    ELSE [ok |-> TRUE, v |-> datetime_now]

\* the callback of a "book" event whose timestamp and levels are converted
book_call(m, timestamp, side) ==
    IF ~timestamp.ok \/ tuples_raise(side.buys) \/ tuples_raise(side.sells)
    THEN Handled(<<>>, "Error processing WebSocket message")
    ELSE Handled(<<[data |-> [token_id |-> get(m, "asset_id", ""),
                              market |-> get(m, "market", ""),
                              timestamp |-> timestamp.v,
                              bids |-> to_tuples(side.buys),
                              asks |-> to_tuples(side.sells),
                              event_type |-> "book",
                              hash |-> get(m, "hash", "")],
                     timestamp |-> timestamp.v]>>,
                 "Received BOOK event")

\* stream_order_books.on_message, the "book" branch
book_event(tokens, m, timestamp_ms) ==
    IF get(m, "asset_id", "") \notin Range(tokens) THEN Handled(<<>>, "")
    ELSE book_call(m, book_timestamp(m, timestamp_ms),
                   [key \in {"buys", "sells"} |-> floats_of(get(m, key, <<>>))])

\* "for price_change in price_changes: ... if asset_id in token_ids: ... callback(...)"
price_change_calls(tokens, price_changes, market, timestamp) ==
    LET mine == SelectSeq(price_changes, LAMBDA c : get(c, "asset_id", "") \in Range(tokens))
    IN  [i \in 1..Len(mine) |->
            [data |-> [token_id |-> mine[i].asset_id,
                       timestamp |-> timestamp,
                       best_bid |-> get(mine[i], "best_bid", "None"),
                       best_ask |-> get(mine[i], "best_ask", "None"),
                       price |-> get(mine[i], "price", "None"),
                       size |-> get(mine[i], "size", "None"),
                       side |-> get(mine[i], "side", "None"),
                       market |-> market,
                       event_type |-> "price_change",
                       bids |-> <<>>,
                       asks |-> <<>>],
             timestamp |-> timestamp]]

\* stream_order_books.on_message, the "price_change" branch
price_change_events(tokens, m, timestamp_ms) ==
    LET timestamp == stamped(IF "timestamp" \in m.keys THEN int_of(timestamp_ms)
                             ELSE [ok |-> TRUE, v |-> time_ms])
    IN  IF ~timestamp.ok THEN Handled(<<>>, "Error processing WebSocket message")
        ELSE Handled(price_change_calls(tokens, get(m, "price_changes", <<>>),
                                        get(m, "market", "None"), timestamp.v), "")

\* stream_order_books.on_message of an object that json.loads decoded, or
\* failed to with a ValueError
books_on_data(tokens, m, data) ==
    IF ~data.ok THEN Handled(<<>>, "Error processing WebSocket message")
    ELSE LET event_type == IF get(m, "eventType", "") # "" THEN m.eventType
                           ELSE get(m, "event_type", "")
         IN  IF event_type = "book" THEN book_event(tokens, m, data.timestamp)
             ELSE IF get(m, "event_type", "None") = "price_change" /\ "price_changes" \in m.keys
             THEN price_change_events(tokens, m, data.timestamp)
             ELSE IF "type" \in m.keys
             THEN Handled(<<>>, IF m.type \in {"subscribed", "subscription_success"}
                                THEN "Subscribed to order books"
                                ELSE IF m.type = "error" THEN "WebSocket error" ELSE "")
             ELSE Handled(<<>>, "Unhandled message type")

\* stream_order_books.on_message
books_on_message(tokens, m) ==
    IF m.text = "PONG" THEN Handled(<<>>, "")
    ELSE IF m.text = "not json" THEN except_JSONDecodeError
    ELSE IF m.text # "{}" THEN Handled(<<>>, "")
    ELSE books_on_data(tokens, m, json_loads(m))

\* stream_order_book.on_message
book_on_message(token_id, m) ==
    IF m.text = "PONG" THEN Handled(<<>>, "")
    ELSE IF m.text = "not json" THEN except_JSONDecodeError
    ELSE IF m.text # "{}" THEN Handled(<<>>, "")
    ELSE IF ~json_loads(m).ok THEN Handled(<<>>, "Error processing WebSocket message")
    ELSE IF "bids" \in m.keys \/ "asks" \in m.keys
    THEN LET msg_token_id == IF get(m, "asset_id", "") # "" THEN m.asset_id
                             ELSE IF get(m, "token_id", "") # "" THEN m.token_id
                             ELSE token_id
         IN  Handled(<<[data |-> [token_id |-> msg_token_id,
                                  timestamp |-> datetime_now,
                                  bids |-> get(m, "bids", <<>>),
                                  asks |-> get(m, "asks", <<>>)],
                        timestamp |-> datetime_now]>>, "")
    ELSE IF "type" \in m.keys
    THEN Handled(<<>>, IF m.type \in {"subscribed", "subscription_success"}
                       THEN "Subscribed to order book"
                       ELSE IF m.type = "error" THEN "WebSocket error" ELSE "")
    ELSE Handled(<<>>, "Received message")

\* callbacks invoked ahead of the earlier ones
deliver_front(log, cb, calls) ==
    [i \in 1..Len(calls) |->
        [cb |-> cb, data |-> calls[i].data, timestamp |-> calls[i].timestamp]] \o log

\* "callback(order_book_data, timestamp)", once per event and in their order
deliver(log, cb, calls) ==
    log \o [i \in 1..Len(calls) |->
               [cb |-> cb, data |-> calls[i].data, timestamp |-> calls[i].timestamp]]

\* market.get(k): "None" for a key the market has not
market_get(market, k) == IF k \in market.keys THEN market[k] ELSE "None"

\* enhanced_callback: "{**order_book_data, "market": {...}, "token":
\* tokens[token_index]}", the two keys added or replaced
enriched_data(env, data) ==
    ("market" :> [condition_id |-> market_get(env.market[1], "condition_id"),
                  question_id |-> market_get(env.market[1], "question_id"),
                  question |-> market_get(env.market[1], "question")]
     @@ "token" :> env.token[1]) @@ data

\* the callback that is handed the data in the end: the one enhanced_callback
\* closes over, or the worker's own
sink_of(t) == IF callback[t] = "enhanced_callback" THEN enclosed[t].callback ELSE callback[t]

\* the invocations as the sink of worker t sees them
handed(t, calls) ==
    IF callback[t] = "enhanced_callback"
    THEN [i \in 1..Len(calls) |->
             [data |-> enriched_data(enclosed[t], calls[i].data), timestamp |-> calls[i].timestamp]]
    ELSE calls

\* The sinks of the runs: cbA and cbB return normally, cbRaisesOnBook raises
\* KeyError when it is handed a book snapshot, cbStop calls
\* client.stop_streaming() and does nothing else.
sink_raises(cb, c) ==
    /\ cb = "cbRaisesOnBook"
    /\ "event_type" \in DOMAIN c.data
    /\ c.data.event_type = "book"

\* the callback invocations on_message gets to make: those up to the first
\* one that raises, which takes control out of the "try:" block
invoked(cb, calls) ==
    LET bad == {i \in 1..Len(calls) : sink_raises(cb, calls[i])}
    IN  IF bad = {} THEN calls
        ELSE SubSeq(calls, 1, CHOOSE i \in bad : \A j \in bad : i <= j)

\* a handler that lets the sink's exception out to the transport
except_Exception_reraise == [log |-> "", raised |-> TRUE]

\* "except Exception as e: logger.error(...)" of on_message
except_Exception == [log |-> "Error processing WebSocket message", raised |-> FALSE]

\* what an on_message call of worker t that made its callback invocations did,
\* an exception of the sink caught by "except Exception" or none
on_message_ended(t, h, sinkRaised) ==
    [t |-> t, message |-> h.message[1], calls |-> h.made,
     log |-> IF sinkRaised THEN except_Exception.log ELSE h.log,
     raised |-> IF sinkRaised THEN except_Exception.raised ELSE FALSE,
     sinkRaised |-> sinkRaised, stopped |-> h.stopped]

\* stop_streaming run by the sink on worker t's thread, from its join on
\* (lines 644-649): "self._streaming_thread.join(timeout=2.0)" raises
\* RuntimeError when _streaming_thread is the thread it runs on, which leaves
\* stop_streaming and the sink and ends on_message in its "except Exception";
\* it waits for another thread that is alive; with none to wait for the two
\* fields are cleared and the sink returns
stop_streaming_in_sink_join(t, h) ==
    IF _streaming_thread = <<t>>
    THEN /\ pc' = [pc EXCEPT ![t] = "open"]
         /\ received' = Append(received, on_message_ended(t, h, TRUE))
         /\ handler' = [handler EXCEPT ![t] = NoHandler]
         /\ UNCHANGED <<joining, _ws_callback, _ws_token_id>>
    ELSE IF \E u \in ThreadOf(_streaming_thread) : Alive(u)
    THEN /\ pc' = [pc EXCEPT ![t] = "sink_join"]
         /\ joining' = [joining EXCEPT ![t] = Join(_streaming_thread)]
         /\ handler' = [handler EXCEPT ![t] = h]
         /\ UNCHANGED <<received, _ws_callback, _ws_token_id>>
    ELSE /\ pc' = [pc EXCEPT ![t] = "sink"]
         /\ handler' = [handler EXCEPT ![t] = h]
         /\ _ws_callback' = "None"
         /\ _ws_token_id' = "None"
         /\ UNCHANGED <<joining, received>>

\* stop_streaming run by the sink on worker t's thread, during the on_message
\* call h, up to its first wait: the flag, then, with a WebSocketApp in
\* self._websocket, the call of close() on it (lines 632-638); with none, on
\* to the join
stop_streaming_in_sink(t, h) ==
    IF _streaming_active
    THEN /\ _streaming_active' = FALSE
         /\ wsCloseReq' = CloseReqAfter(_websocket)
         /\ stopAt' = [u \in Threads |->
                         IF u \in ThreadOf(_streaming_thread) THEN Phase(u) ELSE stopAt[u]]
         /\ IF _websocket # <<>>
            THEN /\ pc' = [pc EXCEPT ![t] = "sink_close"]
                 /\ handler' = [handler EXCEPT ![t] = [h EXCEPT !.stopped = TRUE]]
                 /\ UNCHANGED <<joining, received, _ws_callback, _ws_token_id>>
            ELSE stop_streaming_in_sink_join(t, [h EXCEPT !.stopped = TRUE])
         /\ UNCHANGED <<_streaming_thread, _websocket, kind, token_ids, callback, duration,
                        start_time, reconnect_delay, sleep_start, wsCount, wsState, sent, delays>>
    ELSE /\ pc' = [pc EXCEPT ![t] = "sink"]
         /\ handler' = [handler EXCEPT ![t] = h]
         /\ UNCHANGED <<clientVars, joining, received, kind, token_ids, callback, duration, start_time,
                        reconnect_delay, sleep_start, wsCount, wsState, wsCloseReq, sent, delays, stopAt>>

\* The WebSocketApp of thread t, open, hands message m to the on_message of
\* the entry point that created it. A sink that returns or raises at once is
\* part of the step; with a sink that calls stop_streaming the step ends where
\* that call first waits.
on_message(t, m) ==
    /\ pc[t] = "open"
    /\ msgBudget > 0
    /\ msgBudget' = msgBudget - 1
    /\ LET r == IF kind[t] = "books" THEN books_on_message(token_ids[t], m)
                ELSE book_on_message(token_ids[t][1], m)
           calls == handed(t, r.calls)
           made == invoked(sink_of(t), calls)
           sinkRaised == \E i \in 1..Len(made) : sink_raises(sink_of(t), made[i])
       IN  IF sink_of(t) = "cbStop" /\ calls # <<>>
           THEN /\ sink' = deliver(sink, sink_of(t), <<calls[1]>>)
                /\ stop_streaming_in_sink(t, [NoHandler EXCEPT !.message = <<m>>,
                                                               !.todo = Tail(calls),
                                                               !.made = 1, !.log = r.log])
           ELSE /\ received' = Append(received,
                                      [t |-> t, message |-> m, calls |-> Len(made),
                                       log |-> IF sinkRaised THEN except_Exception.log ELSE r.log,
                                       raised |-> IF sinkRaised THEN except_Exception.raised
                                                  ELSE r.raised,
                                       sinkRaised |-> sinkRaised, stopped |-> FALSE])
                /\ sink' = deliver(sink, sink_of(t), made)
                /\ UNCHANGED <<clientVars, joining, threadVars, handler>>
    /\ UNCHANGED <<now, caller, call, budget, horizon, fetchVars, sideVars, enclosed>>

\* stop_streaming on worker t's thread after close() returned or raised:
\* "self._websocket = None", then the join
stop_streaming_in_sink_closed(t) ==
    /\ pc[t] = "sink_close"
    /\ _websocket' = <<>>
    /\ stop_streaming_in_sink_join(t, handler[t])
    /\ UNCHANGED <<_streaming_active, _streaming_thread, now, caller, call, budget, horizon,
                   msgBudget, sink, enclosed, fetchVars, sideVars, kind, token_ids, callback,
                   duration, start_time, reconnect_delay, sleep_start, wsCount, wsState, wsCloseReq, sent,
                   delays, stopAt>>

\* stop_streaming on worker t's thread after its join returned: the thread
\* waited for has ended, or it is alive and the 2 seconds have passed; the
\* two fields are cleared and the sink returns
stop_streaming_in_sink_joined(t) ==
    /\ pc[t] = "sink_join"
    /\ pc' = [pc EXCEPT ![t] = "sink"]
    /\ now' = join_returns(t)
    /\ joining' = [joining EXCEPT ![t] = NotJoining]
    /\ UNCHANGED handler
    /\ _ws_callback' = "None"
    /\ _ws_token_id' = "None"
    /\ UNCHANGED <<_streaming_active, _streaming_thread, _websocket, caller, call, budget,
                   horizon, msgBudget, received, sink, enclosed, fetchVars, sideVars, kind,
                   token_ids, callback, duration, start_time, reconnect_delay, sleep_start, wsCount, wsState,
                   wsCloseReq, sent, delays, stopAt>>

\* on_message of worker t after its sink returned: the callback invocation
\* of the next event of the message, or the end of the call
on_message_resumed(t) ==
    /\ pc[t] = "sink"
    /\ IF handler[t].todo = <<>>
       THEN /\ pc' = [pc EXCEPT ![t] = "open"]
            /\ received' = Append(received, on_message_ended(t, handler[t], FALSE))
            /\ handler' = [handler EXCEPT ![t] = NoHandler]
            /\ UNCHANGED <<clientVars, joining, sink, kind, token_ids, callback, duration, start_time,
                           reconnect_delay, sleep_start, wsCount, wsState, wsCloseReq, sent, delays, stopAt>>
       ELSE /\ sink' = deliver(sink, sink_of(t), <<Head(handler[t].todo)>>)
            /\ stop_streaming_in_sink(t, [handler[t] EXCEPT !.todo = Tail(@), !.made = @ + 1])
    /\ UNCHANGED <<now, caller, call, budget, horizon, msgBudget, enclosed, fetchVars, sideVars>>

\* ------------------------------------------------------ fetch_all_markets
\* the page a cursor leads to: None the first, 0 for a cursor past the pages
PageAt(srv, cursor) ==
    IF cursor = "None" THEN (IF Len(srv.pages) >= 1 THEN 1 ELSE 0)
    ELSE IF \E k \in 2..Len(srv.pages) : CursorTo(k) = cursor
    THEN CHOOSE k \in 2..Len(srv.pages) : CursorTo(k) = cursor
    ELSE 0

\* self.client.get_markets(), the n-th call of the run: what it raises
\* ("none": nothing) or the response ("dict": FALSE for a response of None)
get_markets(srv, cursor, n) ==
    LET k == PageAt(srv, cursor)
        raising(e) == [raises |-> e, dict |-> FALSE, data |-> <<>>, next_cursor |-> "None"]
    IN  IF srv.failAt = n THEN raising(srv.failure)
        ELSE IF k # 0
        THEN [raises |-> "none", dict |-> TRUE, data |-> srv.pages[k].data,
              next_cursor |-> srv.pages[k].next_cursor]
        ELSE IF srv.tail = "raise" THEN raising(Exhausted)
        ELSE IF srv.tail = "empty"
        THEN [raises |-> "none", dict |-> TRUE, data |-> <<>>, next_cursor |-> EndCursor]
        ELSE [raises |-> "none", dict |-> FALSE, data |-> <<>>, next_cursor |-> "None"]

\* a page fetch that sends no cursor
_fetch_page_no_cursor(srv, cursor, n) ==
    LET response == get_markets(srv, "None", n)
    IN  IF response.raises = "none" /\ ~response.dict
        THEN [raises |-> "none", dict |-> TRUE, data |-> <<>>, next_cursor |-> "None"]
        ELSE response

\* _fetch_page: a response that is no dict becomes {}
_fetch_page(srv, cursor, n) ==
    LET response == get_markets(srv, cursor, n)
    IN  IF response.raises = "none" /\ ~response.dict
        THEN [raises |-> "none", dict |-> TRUE, data |-> <<>>, next_cursor |-> "None"]
        ELSE response

\* a fetch that takes no error for the end of the catalog
is_exhaustion_never(e) == FALSE

\* "if "next item should be greater than or equal to 0" in str(e):", over
\* the error messages of the catalogs
is_exhaustion(e) == e \in {Exhausted, ExhaustedWrapped}

\* "return all_markets"
return_all_markets(markets, log) ==
    fetched' = [returned |-> TRUE, err |-> "none", markets |-> markets, log |-> log]

\* fetch_all_markets is called: "all_markets = []", "next_cursor = None"
fetch_all_markets ==
    /\ fpc = "idle"
    /\ fpc' = "loop"
    /\ all_markets' = <<>>
    /\ next_cursor' = "None"
    /\ UNCHANGED <<clientVars, now, caller, joining, call, budget, horizon, msgVars, sideVars, server, requests,
                   fetched, threadVars>>

\* one iteration of "while True:", with the return that follows a break
fetch_iteration ==
    /\ fpc = "loop"
    /\ Len(requests) < MaxCalls
    /\ LET response == _fetch_page(server, next_cursor, Len(requests) + 1)
       IN  /\ requests' = Append(requests, [cursor |-> next_cursor, raises |-> response.raises])
           /\ IF response.raises # "none"
              THEN /\ fpc' = "done"
                   /\ return_all_markets(all_markets,
                          IF is_exhaustion(response.raises) THEN "" ELSE "Error fetching page")
                   /\ UNCHANGED <<all_markets, next_cursor>>
              ELSE IF response.data = <<>>
              THEN /\ fpc' = "done"
                   /\ return_all_markets(all_markets, "")
                   /\ UNCHANGED <<all_markets, next_cursor>>
              ELSE /\ all_markets' = all_markets \o response.data
                   /\ next_cursor' = response.next_cursor
                   /\ UNCHANGED <<fpc, fetched>>
    /\ UNCHANGED <<clientVars, now, caller, joining, call, budget, horizon, msgVars, sideVars, server, threadVars>>

\* ------------------------------------------------------------------ Next
Next ==
    \/ \E c \in BooksCalls : stream_order_books(c.tokens, c.cb, c.d)
    \/ \E c \in BookCalls : stream_order_book(c.token_id, c.cb, c.d)
    \/ stop_streaming
    \/ stop_streaming_closed
    \/ stop_streaming_joined
    \/ \E t \in Threads : loop_check(t)
    \/ \E t \in Threads : create_websocket(t)
    \/ \E t \in Threads : on_open(t)
    \/ \E t \in Threads : on_close(t)
    \/ \E t \in Threads : connect_raises(t)
    \/ \E t \in Threads : after_run_forever(t)
    \/ \E t \in Threads : except_handler(t)
    \/ \E t \in Threads : sleep_backoff(t)
    \/ Tick

Spec == Init /\ [][Next]_vars

SpecBackoff == InitBackoff /\ [][Next]_vars

\* ---------------------------------------------------- message handling
\* One session from its start to its open connection, and the messages that
\* connection delivers while time passes.
InitHandling == InitWith(MsgConns, TickHorizon, {1}) /\ InitMessages(MaxMsgs) /\ InitFetchWith(NoCatalog)

NextHandling ==
    \/ \E c \in BooksCalls : stream_order_books(c.tokens, c.cb, c.d)
    \/ \E c \in HandlingBookCalls : stream_order_book(c.token_id, c.cb, c.d)
    \/ \E c \in MarketCalls : stream_order_book_for_market(c.market, c.cb, c.d, c.token_index)
    \/ \E t \in Threads : loop_check(t)
    \/ \E t \in Threads : create_websocket(t)
    \/ \E t \in Threads : on_open(t)
    \/ \E t \in Threads, m \in Messages : on_message(t, m)
    \/ Tick

SpecHandling == InitHandling /\ [][NextHandling]_vars

\* One session whose sink raises, and the messages its connection delivers.
SinkCalls ==
    { [tokens |-> <<"T2", "T1">>, cb |-> "cbRaisesOnBook", d |-> <<>>] }

SinkMessages == {Pong, NotJson, Subscribed, Book, BookNoTimestamp, BookOther, PriceChange}

InitSink == InitWith(MsgConns, 0, {1}) /\ InitMessages(MaxSinkMsgs) /\ InitFetchWith(NoCatalog)

NextSink ==
    \/ \E c \in SinkCalls : stream_order_books(c.tokens, c.cb, c.d)
    \/ \E t \in Threads : loop_check(t)
    \/ \E t \in Threads : create_websocket(t)
    \/ \E t \in Threads : on_open(t)
    \/ \E t \in Threads, m \in SinkMessages : on_message(t, m)
    \/ \E t \in Threads : on_close(t)
    \/ \E t \in Threads : after_run_forever(t)

SpecSink == InitSink /\ [][NextSink]_vars

\* Sessions whose sink calls stop_streaming, on the worker of the session it
\* stops or on the worker of an earlier one, and sessions stopped by their
\* caller.
SinkStopCalls ==
    { [tokens |-> <<"T2", "T1">>, cb |-> "cbStop", d |-> <<>>],
      [tokens |-> <<"T1">>, cb |-> "cbA", d |-> <<>>] }

SinkStopMessages == {Book, PriceChange}

InitSinkStop == InitWith(StopConns, 0, Threads) /\ InitMessages(StopMsgs) /\ InitFetchWith(NoCatalog)

NextSinkStop ==
    \/ \E c \in SinkStopCalls : stream_order_books(c.tokens, c.cb, c.d)
    \/ stop_streaming
    \/ stop_streaming_closed
    \/ stop_streaming_joined
    \/ \E t \in Threads : loop_check(t)
    \/ \E t \in Threads : create_websocket(t)
    \/ \E t \in Threads : on_open(t)
    \/ \E t \in Threads, m \in SinkStopMessages : on_message(t, m)
    \/ \E t \in Threads : stop_streaming_in_sink_closed(t)
    \/ \E t \in Threads : stop_streaming_in_sink_joined(t)
    \/ \E t \in Threads : on_message_resumed(t)
    \/ \E t \in Threads : on_close(t)
    \/ \E t \in Threads : after_run_forever(t)

SpecSinkStop == InitSinkStop /\ [][NextSinkStop]_vars

\* Sessions started, stopped and restarted while their connections deliver
\* messages.
StopMessages == {Book, PriceChange}

InitStopped == InitWith(StopConns, 0, Threads) /\ InitMessages(StopMsgs) /\ InitFetchWith(NoCatalog)

NextStopped ==
    \/ \E c \in BooksCalls : stream_order_books(c.tokens, c.cb, c.d)
    \/ stop_streaming
    \/ stop_streaming_closed
    \/ stop_streaming_joined
    \/ \E t \in Threads : loop_check(t)
    \/ \E t \in Threads : create_websocket(t)
    \/ \E t \in Threads : on_open(t)
    \/ \E t \in Threads : on_close(t)
    \/ \E t \in Threads : after_run_forever(t)
    \/ \E t \in Threads, m \in StopMessages : on_message(t, m)

SpecStopped == InitStopped /\ [][NextStopped]_vars

\* -------------------------------------------------------- catalog fetch
\* One fetch_all_markets call against each catalog.
InitFetch ==
    /\ InitWith(0, 0, {})
    /\ InitMessages(0)
    /\ \E srv \in Catalogs : InitFetchWith(srv)

NextFetch ==
    \/ fetch_all_markets
    \/ fetch_iteration

SpecFetch == InitFetch /\ [][NextFetch]_vars

\* ------------------------------------------------------------ send_ping
\* "ws.send(...)" succeeds on a transport that is open and that nobody asked
\* to close, and raises WebSocketConnectionClosedException otherwise
can_send(t, n) == wsCount[t] = n /\ wsState[t] = "open" /\ ~wsCloseReq[t]

\* "while self._streaming_active:" of send_ping
ping_continues == _streaming_active

\* One pass of send_ping up to its sleep: the loop test, then ws.send("PING")
\* on the connection the thread was started for.
send_ping(p) ==
    /\ p \in pingers
    /\ p.st = "due"
    /\ Len(pings) < MaxPings
    /\ IF ping_continues /\ can_send(p.t, p.n)
       THEN /\ pings' = Append(pings, [t |-> p.t, n |-> p.n, at |-> now])
            /\ pingers' = (pingers \ {p}) \cup {[p EXCEPT !.st = "sleeping", !.sleep_start = now]}
       ELSE /\ pingers' = (pingers \ {p}) \cup {[p EXCEPT !.st = "ended"]}
            /\ UNCHANGED pings
    /\ UNCHANGED <<clientVars, now, caller, joining, call, budget, horizon, msgVars, fetchVars, rest, display,
                   threadVars>>

\* "time.sleep(10)" of send_ping returns
ping_sleep(p) ==
    /\ p \in pingers
    /\ p.st = "sleeping"
    /\ now' = woken(p.sleep_start, ping_interval)
    /\ pingers' = (pingers \ {p}) \cup {[p EXCEPT !.st = "due", !.sleep_start = 0]}
    /\ UNCHANGED <<clientVars, caller, joining, call, budget, horizon, msgVars, fetchVars, rest, pings, display,
                   threadVars>>

\* Sessions started, stopped and restarted while the ping threads of their
\* connections run.
InitPing == InitWith(PingConns, 0, Threads) /\ InitMessages(0) /\ InitFetchWith(NoCatalog)

NextPing ==
    \/ \E c \in BooksCalls : stream_order_books(c.tokens, c.cb, c.d)
    \/ stop_streaming
    \/ stop_streaming_closed
    \/ stop_streaming_joined
    \/ \E t \in Threads : loop_check(t)
    \/ \E t \in Threads : create_websocket(t)
    \/ \E t \in Threads : on_open(t)
    \/ \E t \in Threads : on_close(t)
    \/ \E t \in Threads : after_run_forever(t)
    \/ \E p \in pingers : send_ping(p)
    \/ \E p \in pingers : ping_sleep(p)

SpecPing == InitPing /\ [][NextPing]_vars

\* ------------------------------------------------- main.on_update (display)
\* "abs(current_price - prev_price) >= tick_size" is binary64 arithmetic:
\* the difference is rounded to a float (an infinity if it overflows), and a
\* NaN compares False
moved_a_tick(current_price, prev_price, tick) ==
    float_ge(float_abs(float_sub(current_price, prev_price)), tick)

\* minimum_tick_size of the market
TickSizes == {float(<<"0", ".", "0", "1">>).v, float(<<"0", ".", "0", "2">>).v}

\* "float(price) if price != "N/A" and price is not None else None":
\* ok FALSE where float raises ValueError, none where the result is None
a_price(x) == [ok |-> x.ok, none |-> FALSE, v |-> x.v]
current_price_of(price) ==
    IF price.none \/ price.text = NA THEN [ok |-> TRUE, none |-> TRUE, v |-> Zero]
    ELSE a_price(float(price.text))

\* "should_log = args.verbose or price_count["count"] <= 5 or price_count["count"] % 10 == 0"
should_log(d, count) ==
    d.script = "stream_prices" \/ d.verbose \/ count <= 5 \/ count % 10 = 0

\* main.on_update of the running display script, handed event ev
on_update(ev) ==
    /\ display.script # "none"
    /\ Len(display.events) < MaxEvents
    /\ LET d == display
           seen(shown, logged) ==
               Append(d.events, [event_type |-> ev.event_type, token_id |-> ev.token_id,
                                 price |-> ev.price, shown |-> shown, logged |-> logged])
           cur == current_price_of(ev.price)
           prev_price == d.previous_prices[ev.token_id]
           price_changed ==
               IF prev_price = <<>> THEN TRUE
               ELSE moved_a_tick(cur.v, prev_price[1], d.tick_size)
       IN  IF d.script = "stream_orderbook" /\ ev.event_type = "book"
           THEN display' = [d EXCEPT !.book_count = @ + 1, !.events = seen(TRUE, TRUE)]
           ELSE IF ~cur.ok \/ cur.none \/ ~price_changed
           THEN display' = [d EXCEPT !.events = seen(FALSE, FALSE)]
           ELSE display' = [d EXCEPT !.previous_prices[ev.token_id] = <<cur.v>>,
                                     !.price_count = @ + 1,
                                     !.events = seen(TRUE, should_log(d, d.price_count + 1))]
    /\ UNCHANGED <<clientVars, now, caller, joining, call, budget, horizon, msgVars, fetchVars, rest,
                   pingers, pings, threadVars>>

\* A display script from its start, and the events its callback is given.
InitDisplay ==
    /\ InitWith(0, 0, {})
    /\ InitMessages(0)
    /\ server = NoCatalog
    /\ fpc = "idle"
    /\ all_markets = <<>>
    /\ next_cursor = "None"
    /\ requests = <<>>
    /\ fetched = [returned |-> FALSE, err |-> "none", markets |-> <<>>, log |-> ""]
    /\ rest = [token_id |-> "None", fetch |-> "none", raised |-> "none", value |-> "None",
               log |-> ""]
    /\ pingers = {}
    /\ pings = <<>>
    /\ \E script \in {"stream_orderbook", "stream_prices"}, tick \in TickSizes,
          verbose \in BOOLEAN :
            display = NewDisplay(script, tick, verbose)

NextDisplay == \E ev \in DisplayEvents : on_update(ev)

SpecDisplay == InitDisplay /\ [][NextDisplay]_vars

\* ------------------------------------------------------- get_order_book
\* what "self.client.get_order_book(token_id)" can do: give the book or raise
RestOutcomes == {"ok", "PolyApiException", "ConnectionError", "Timeout"}
RestTokens == {"T1", "T9"}

\* the constructor either raises or leaves a ClobClient in self.client
client_is_None == FALSE

\* a fetch whose failure reaches the caller
order_book_or_raise(outcome) ==
    IF outcome = "ok"
    THEN [raised |-> "none", value |-> "OrderBookSummary", log |-> ""]
    ELSE [raised |-> outcome, value |-> "unbound", log |-> ""]

\* "try: return self.client.get_order_book(token_id)
\*  except Exception as e: logger.error(...); return None"
order_book_or_None(outcome) ==
    IF outcome = "ok"
    THEN [raised |-> "none", value |-> "OrderBookSummary", log |-> ""]
    ELSE [raised |-> "none", value |-> "None", log |-> "Error fetching order book"]

get_order_book(token_id, outcome) ==
    /\ caller = "idle"
    /\ LET r == IF client_is_None
                THEN [raised |-> "RuntimeError", value |-> "unbound", log |-> ""]
                ELSE order_book_or_None(outcome)
       IN /\ rest' = [token_id |-> token_id, fetch |-> outcome, raised |-> r.raised,
                      value |-> r.value, log |-> r.log]
          /\ Returned("get_order_book", <<token_id>>, r.raised, r.log)
    /\ UNCHANGED <<clientVars, now, caller, joining, budget, horizon, msgVars, fetchVars, pingers, pings, display,
                   threadVars>>

\* One session's whole life, with one-shot REST reads made at any point of it.
InitRest == InitWith(MsgConns, TickHorizon, {1}) /\ InitMessages(0) /\ InitFetchWith(NoCatalog)

NextRest ==
    \/ Next
    \/ \E k \in RestTokens, o \in RestOutcomes : get_order_book(k, o)

SpecRest == InitRest /\ [][NextRest]_vars

\* ---------------------------------------------------------------- claims
StartOps == {"stream_order_books", "stream_order_book"}

\* a step that is a public call
Called == call'.seq # call.seq

RECURSIVE Pow2(_)
Pow2(n) == IF n = 0 THEN 1 ELSE 2 * Pow2(n - 1)

\* C1: a session keeps reconnecting until stop or the duration ceiling: its
\* worker ends only after stop_streaming ran for it or its ceiling was reached.
C1_ReconnectsUntilStop ==
    \A t \in Threads :
        pc[t] = "done" =>
            \/ stopAt[t] # "none"
            \/ duration[t] # <<>> /\ now - start_time[t] >= duration[t][1]

\* C2: at most one streaming worker is running for the client at any time.
C2_OneWorker == Cardinality({t \in Threads : Alive(t)}) <= 1

\* C3: once a stop_streaming that found the worker connecting (past its loop
\* check, no open transport yet) has returned, the worker has terminated, no
\* transport is open and the flag is false.
C3_StopWhileConnecting ==
    \A t \in Threads :
        ( /\ stopAt[t] = "connecting"
          /\ _streaming_thread = <<t>>
          /\ call.op = "stop_streaming"
          /\ call.err = "none" )
        => pc[t] = "done" /\ wsState[t] # "open" /\ ~_streaming_active

\* C4: after stop_streaming ran for a session, its worker creates no new
\* connection and no transport of it opens.
C4_NoReconnectAfterStop ==
    [][\A t \in Threads :
          stopAt[t] # "none" =>
              /\ wsCount'[t] = wsCount[t]
              /\ (wsState'[t] = "open" => wsState[t] = "open")]_vars

\* C5: every open transport has had exactly one message sent on it, and every
\* message sent on a transport of a session is the subscribe message with the
\* token ids passed to the start call and type "market".
C5_SubscribeCarriesTokenIds ==
    \A t \in Threads :
        /\ wsState[t] = "open" => Len(sent[t]) = 1
        /\ wsState[t] = "new" => sent[t] = <<>>
        /\ \A i \in 1..Len(sent[t]) :
               sent[t][i] = [assets_ids |-> token_ids[t], type |-> "market"]

\* C5 witness: a two-token session subscribed again on its second connection.
C5_Witness ==
    \E t \in Threads :
        /\ kind[t] = "books"
        /\ wsCount[t] >= 2
        /\ wsState[t] = "open"
        /\ Len(token_ids[t]) = 2
        /\ Len(sent[t]) = 1

\* C6: the k-th delay a worker waits is min(2^(k-1), 60).
C6_BackoffSchedule ==
    \A t \in Threads :
        \A k \in 1..Len(delays[t]) : delays[t][k] = Min(Pow2(k - 1), 60)

\* C6 witness: a worker has waited eight times, the last two at the cap.
C6_Witness ==
    \E t \in Threads :
        /\ Len(delays[t]) >= 8
        /\ delays[t][6] = 32
        /\ delays[t][7] = 60
        /\ delays[t][8] = 60

\* C7: a start call made while the flag is set raises the already-streaming
\* error and changes no field of the client and nothing of any worker.
C7_StartWhileActive ==
    [][(Called /\ call'.op \in StartOps /\ _streaming_active)
          => (call'.err = "RuntimeError" /\ UNCHANGED <<clientVars, caller, joining, threadVars>>)]_vars

\* C7 witness: a start was refused while a session holds an open transport.
C7_Witness ==
    /\ call.op \in StartOps
    /\ call.err = "RuntimeError"
    /\ \E t \in Threads : _streaming_thread = <<t>> /\ wsState[t] = "open" /\ pc[t] = "open"

\* C8: stream_order_books with an empty list and no active stream raises the
\* invalid-argument error, changes nothing (the flag stays false, no worker is
\* spawned), and the start with a non-empty list that follows it succeeds.
C8_EmptyTokenIds ==
    /\ [][(Called /\ call'.op = "stream_order_books" /\ call'.empty /\ ~_streaming_active)
             => ( /\ call'.err = "ValueError"
                  /\ ~_streaming_active'
                  /\ UNCHANGED <<clientVars, caller, joining, threadVars>> )]_vars
    /\ [][(call.err = "ValueError" /\ Called /\ call'.op = "stream_order_books" /\ ~call'.empty)
             => ( /\ call'.err = "none"
                  /\ _streaming_active'
                  /\ _streaming_thread' # _streaming_thread
                  /\ \E t \in Threads : pc[t] = "unborn" /\ pc'[t] = "loop" )]_vars

\* C8 witness: the empty list was refused with no active stream, after an
\* earlier session.
C8_Witness ==
    /\ call.op = "stream_order_books"
    /\ call.err = "ValueError"
    /\ ~_streaming_active
    /\ \E t \in Threads : pc[t] = "done"
    /\ \E t \in Threads : pc[t] = "unborn"

\* C9: stop_streaming with no active stream changes no field, closes nothing
\* and raises nothing; and once a stop_streaming has returned the flag is
\* false, so that the call made next, if it is stop_streaming again, is that no-op.
C9_StopIdempotent ==
    /\ [][(Called /\ call'.op = "stop_streaming" /\ ~_streaming_active)
             => ( /\ call'.err = "none"
                  /\ call'.log = "No active stream to stop"
                  /\ UNCHANGED <<clientVars, now, caller, joining, threadVars>> )]_vars
    /\ []((call.op = "stop_streaming" /\ call.err = "none") => ~_streaming_active)

\* C9 witness: a second stop_streaming in a row (the first one ran for the
\* session of thread t and no start followed it), with the worker left over.
C9_Witness ==
    /\ call.op = "stop_streaming"
    /\ call.log = "No active stream to stop"
    /\ \E t \in Threads : _streaming_thread = <<t>> /\ stopAt[t] # "none" /\ Alive(t)

\* C10: a worker with a duration ceiling passes from its loop check to a
\* connection attempt only with elapsed < duration, creates a connection only
\* after such a check, and once it has stopped it stays stopped.
C10_DurationCeiling ==
    [][\A t \in Threads :
          /\ (pc'[t] = "connect" /\ pc[t] # "connect")
                => ( /\ pc[t] = "loop"
                     /\ duration[t] # <<>> => now - start_time[t] < duration[t][1] )
          /\ wsCount'[t] # wsCount[t] => pc[t] = "connect"
          /\ pc[t] = "done" => pc'[t] = "done"]_vars

\* C10 witness: a worker reconnected below its ceiling and stopped at the
\* check that found the ceiling reached.
C10_Witness ==
    \E t \in Threads :
        /\ pc[t] = "done"
        /\ duration[t] # <<>>
        /\ wsCount[t] >= 2
        /\ stopAt[t] = "none"
        /\ _streaming_active
        /\ _streaming_thread = <<t>>
        /\ now - start_time[t] >= duration[t][1]

\* C11: whenever the worker of the session has exited (transport close,
\* duration ceiling, stop) and no worker is left, the streaming flag is false,
\* and a stream_order_books call with a non-empty token list made then
\* succeeds instead of raising the already-streaming error.
C11_RestartAfterWorkerExit ==
    /\ [](\A t \in Threads :
            (pc[t] = "done" /\ _streaming_thread = <<t>> /\ \A u \in Threads : ~Alive(u))
                => ~_streaming_active)
    /\ [][((\E t \in Threads : pc[t] = "done" /\ _streaming_thread = <<t>>)
              /\ (\A u \in Threads : ~Alive(u))
              /\ Called /\ call'.op = "stream_order_books" /\ ~call'.empty)
             => call'.err = "none"]_vars

\* C12: a message that names a token outside the session's subscribed set
\* never causes a sink call: every callback invocation carries a token id of
\* the token_ids of the session whose callback it is, for both entry points.
C12_OnlySubscribedTokens ==
    \A i \in 1..Len(sink) :
        \E t \in Threads :
            /\ sink_of(t) = sink[i].cb
            /\ sink[i].data.token_id \in Range(token_ids[t])

\* the event-type marker of an object, under either spelling of its key
Marker(m) == IF get(m, "eventType", "") # "" THEN m.eventType ELSE get(m, "event_type", "")

\* a step that is one on_message call, and the call
Handles == Len(received') = Len(received) + 1
Handling == received'[Len(received')]
NewCalls == SubSeq(sink', Len(sink) + 1, Len(sink'))

\* C13: for a price-change message (the marker "price_change" under either
\* spelling of its key, and a price_changes list), stream_order_books.on_message
\* calls the sink exactly once per entry whose asset_id is subscribed, in
\* list order, and not for the other entries.
C13_PriceChangeExpansion ==
    [][(/\ Handles
        /\ kind[Handling.t] = "books"
        /\ Handling.message.text = "{}"
        /\ Marker(Handling.message) = "price_change"
        /\ "price_changes" \in Handling.message.keys)
         => LET mine == SelectSeq(Handling.message.price_changes,
                            LAMBDA c : c.asset_id \in Range(token_ids[Handling.t]))
            IN  /\ SubSeq(sink', 1, Len(sink)) = sink
                /\ Len(NewCalls) = Len(mine)
                /\ \A i \in 1..Len(mine) :
                      /\ NewCalls[i].cb = sink_of(Handling.t)
                      /\ NewCalls[i].data.event_type = "price_change"
                      /\ NewCalls[i].data.token_id = mine[i].asset_id
                      /\ NewCalls[i].data.price = mine[i].price
                      /\ NewCalls[i].data.side = mine[i].side]_vars

\* a "book" message, or an object with bid/ask level arrays, whose token the
\* session of thread t is subscribed to, in stream_order_books
SubscribedSnapshot(t, m) ==
    /\ kind[t] = "books"
    /\ m.text = "{}"
    /\ Marker(m) = "book" \/ "bids" \in m.keys \/ "asks" \in m.keys
    /\ get(m, "asset_id", "") \in Range(token_ids[t])

\* the levels of a snapshot message on either side
BuysOf(m) == IF "buys" \in m.keys THEN m.buys ELSE get(m, "bids", <<>>)
SellsOf(m) == IF "sells" \in m.keys THEN m.sells ELSE get(m, "asks", <<>>)

\* a level field as decimal, 0 when it is absent or does not parse
FieldOrZero(b, k) == IF k \in b.keys /\ float(b[k]).ok THEN float(b[k]).v ELSE Zero

\* tuples are the levels they come from, one for one and in their order
SameLevels(tuples, levels) ==
    /\ Len(tuples) = Len(levels)
    /\ \A i \in 1..Len(levels) :
          levels[i].dict => tuples[i] = <<FieldOrZero(levels[i], "price"),
                                          FieldOrZero(levels[i], "size")>>

\* C14: a message that is a snapshot by its marker "book" or by its bid/ask
\* arrays, for a subscribed token and with level fields that parse, makes
\* stream_order_books.on_message call the sink exactly once, with the buys
\* as bids and the sells as asks, each a (price, size) pair, in their order.
C14_SnapshotDelivered ==
    [][(/\ Handles
        /\ SubscribedSnapshot(Handling.t, Handling.message)
        /\ ~tuples_raise(floats_of(BuysOf(Handling.message)))
        /\ ~tuples_raise(floats_of(SellsOf(Handling.message))))
         => ( /\ Len(NewCalls) = 1
              /\ NewCalls[1].data.token_id = Handling.message.asset_id
              /\ SameLevels(NewCalls[1].data.bids, BuysOf(Handling.message))
              /\ SameLevels(NewCalls[1].data.asks, SellsOf(Handling.message)) )]_vars

\* C15: a level of a "book" snapshot whose price or size is absent or does
\* not parse counts as 0 in that field, and the snapshot is delivered with
\* all its levels all the same.
C15_BadLevelIsZero ==
    [][(/\ Handles
        /\ SubscribedSnapshot(Handling.t, Handling.message)
        /\ Marker(Handling.message) = "book")
         => ( /\ Len(NewCalls) = 1
              /\ SameLevels(NewCalls[1].data.bids, BuysOf(Handling.message))
              /\ SameLevels(NewCalls[1].data.asks, SellsOf(Handling.message)) )]_vars

\* a heartbeat acknowledgement, text that decodes to no object, a
\* subscription confirmation, an error notice, or an object of no known shape
NonEvent(m) ==
    \/ m.text # "{}"
    \/ /\ Marker(m) \notin {"book", "price_change"}
       /\ "bids" \notin m.keys /\ "asks" \notin m.keys
       /\ "price_changes" \notin m.keys

\* C16: a PONG, a payload that does not decode to an object, a subscription
\* confirmation, an error notice and an unclassified object each cause no
\* sink call, raise nothing out of on_message and leave the session (flag,
\* connection, subscription, worker) as it was, in both entry points.
C16_NonEventsSkipped ==
    [][(Handles /\ NonEvent(Handling.message))
         => ( /\ sink' = sink
              /\ Handling.calls = 0
              /\ ~Handling.raised
              /\ UNCHANGED <<clientVars, threadVars>> )]_vars

\* C16 witness: undecodable text and an error notice were handled, nothing
\* reached the sink and the session is still open.
C16_Witness ==
    /\ Len(received) = 2
    /\ received[1].message = NotJson
    /\ received[2].message = ErrorNotice
    /\ sink = <<>>
    /\ _streaming_active
    /\ pc[1] = "open"

\* the callback invocations made before the i-th on_message call, and by it
RECURSIVE CallsBefore(_)
CallsBefore(i) == IF i <= 1 THEN 0 ELSE CallsBefore(i - 1) + received[i - 1].calls
CallsOf(i) == SubSeq(sink, CallsBefore(i) + 1, CallsBefore(i) + received[i].calls)

\* C17: normalization of a snapshot depends on the raw message and the
\* subscribed set alone: the same snapshot message handled twice in a
\* session gives structurally equal events, whatever the clock and whatever
\* came in between.
C17_SnapshotNormalizationPure ==
    \A i, j \in 1..Len(received) :
        ( /\ received[i].message = received[j].message
          /\ received[i].t = received[j].t
          /\ received[i].message.text = "{}"
          /\ \/ Marker(received[i].message) = "book"
             \/ "bids" \in received[i].message.keys
             \/ "asks" \in received[i].message.keys )
            => CallsOf(i) = CallsOf(j)

\* an event that the message of an on_message call of thread t accounts for
EventOf(e, t, m) ==
    /\ e.cb = sink_of(t)
    /\ IF kind[t] = "book"
       THEN e.data.bids = get(m, "bids", <<>>) /\ e.data.asks = get(m, "asks", <<>>)
       ELSE IF e.data.event_type = "book"
       THEN /\ Marker(m) = "book"
            /\ e.data.token_id = m.asset_id
            /\ e.data.hash = get(m, "hash", "")
            /\ SameLevels(e.data.bids, get(m, "buys", <<>>))
            /\ SameLevels(e.data.asks, get(m, "sells", <<>>))
       ELSE /\ Marker(m) = "price_change"
            /\ \E k \in 1..Len(m.price_changes) :
                  /\ e.data.token_id = m.price_changes[k].asset_id
                  /\ e.data.price = m.price_changes[k].price

\* the events of one on_message call of thread t are not more than its
\* message accounts for: one for a snapshot, and for a price change the
\* subscribed entries in the order of the list, each once
InListOrder(es, t, m) ==
    IF es # <<>> /\ kind[t] = "books" /\ es[1].data.event_type = "price_change"
    THEN LET mine == SelectSeq(m.price_changes,
                               LAMBDA c : c.asset_id \in Range(token_ids[t]))
         IN  /\ Len(es) <= Len(mine)
             /\ \A k \in 1..Len(es) :
                   /\ es[k].data.event_type = "price_change"
                   /\ es[k].data.token_id = mine[k].asset_id
                   /\ es[k].data.price = mine[k].price
                   /\ es[k].data.side = mine[k].side
    ELSE Len(es) <= 1

\* C18: the sink calls are the arrival sequence with the non-events removed:
\* the calls of each on_message call follow those of the calls before it,
\* come from its message, none is repeated or left over, and a call once
\* made keeps its place.
C18_ArrivalOrder ==
    /\ [](/\ CallsBefore(Len(received) + 1) = Len(sink)
          /\ \A i \in 1..Len(received) :
                /\ \A k \in 1..Len(CallsOf(i)) :
                      EventOf(CallsOf(i)[k], received[i].t, received[i].message)
                /\ InListOrder(CallsOf(i), received[i].t, received[i].message))
    /\ [][Len(sink') >= Len(sink) /\ SubSeq(sink', 1, Len(sink)) = sink]_vars

\* C18 witness: a book snapshot, then a price change for the same token,
\* both delivered, the snapshot first.
C18_Witness ==
    /\ Len(received) = 2
    /\ received[1].message = Book
    /\ received[2].message = PriceChange
    /\ Len(sink) = 2
    /\ sink[1].data.event_type = "book"
    /\ sink[2].data.event_type = "price_change"
    /\ sink[1].data.token_id = sink[2].data.token_id

RECURSIVE Concat(_)
Concat(pages) ==
    IF pages = <<>> THEN <<>> ELSE pages[1].data \o Concat(Tail(pages))

\* a catalog of at least one page whose last page is short or has a null
\* next cursor, and none of whose calls fails
EndsAtLastPage(srv) ==
    /\ srv.pages # <<>>
    /\ srv.failAt = 0
    /\ \/ Len(srv.pages[Len(srv.pages)].data) < PageSize
       \/ srv.pages[Len(srv.pages)].next_cursor = "None"

\* C19: against pages whose last one is short or has a null next cursor,
\* fetch_all_markets makes no call after the last page, never holds an item
\* twice, and returns the concatenation of the pages in order.
C19_StopsAtLastPage ==
    EndsAtLastPage(server) =>
        /\ Len(requests) <= Len(server.pages)
        /\ Len(all_markets) <= Len(Concat(server.pages))
        /\ all_markets = SubSeq(Concat(server.pages), 1, Len(all_markets))
        /\ fetched.returned => fetched.markets = Concat(server.pages)

\* C20: when a page fetch raised an error that is not the exhaustion error,
\* the call does not return a result: the error reaches the caller and the
\* items accumulated so far are not returned.
C20_OtherErrorSurfaced ==
    (fetched.returned /\ \E i \in 1..Len(requests) : requests[i].raises = ConnectionReset)
        => (fetched.err = ConnectionReset /\ fetched.markets = <<>>)

\* the markets of the pages that the calls before the n-th asked for
RECURSIVE Accumulated(_)
Accumulated(n) ==
    IF n <= 1 THEN <<>>
    ELSE Accumulated(n - 1) \o server.pages[PageAt(server, requests[n - 1].cursor)].data

\* C21: when the N-th page fetch raises an error whose message contains
\* "next item should be greater than or equal to 0", fetch_all_markets
\* returns without error and without an error line the items of the calls
\* 1..N-1 in order, and makes no further call.
C21_ExhaustionEndsFetch ==
    /\ []((requests # <<>> /\ requests[Len(requests)].raises \in {Exhausted, ExhaustedWrapped})
            => ( /\ fetched.returned
                 /\ fetched.err = "none"
                 /\ fetched.log = ""
                 /\ fetched.markets = Accumulated(Len(requests))
                 /\ fpc = "done" ))
    /\ [][fpc = "done" => (requests' = requests /\ fetched' = fetched)]_vars

\* C21 witness: the third call raised the wrapped exhaustion error after two
\* full pages, and the four markets were returned.
C21_Witness ==
    /\ Len(requests) = 3
    /\ requests[3].raises = ExhaustedWrapped
    /\ fetched.returned
    /\ Len(fetched.markets) = 2 * PageSize

\* C22: the first call carries no cursor and every later call the
\* next_cursor of the response before it; the markets held are those of the
\* responses; and a response that is absent, no object or without data ends
\* the call at once, normally, with the markets accumulated.
C22_CursorChain ==
    /\ requests # <<>> => requests[1].cursor = "None"
    /\ \A i \in 2..Len(requests) :
          /\ requests[i - 1].raises = "none"
          /\ PageAt(server, requests[i - 1].cursor) # 0
          /\ requests[i].cursor =
                server.pages[PageAt(server, requests[i - 1].cursor)].next_cursor
    /\ ( /\ requests # <<>>
         /\ requests[Len(requests)].raises = "none"
         /\ PageAt(server, requests[Len(requests)].cursor) = 0 )
          => ( /\ fetched.returned
               /\ fetched.err = "none"
               /\ fetched.log = ""
               /\ fetched.markets = Accumulated(Len(requests))
               /\ fpc = "done" )
    /\ fpc = "loop" => all_markets = Accumulated(Len(requests) + 1)

\* C22 witness: three pages were fetched along their cursors and the fourth
\* response, with empty data, ended the call with all their markets.
C22_Witness ==
    /\ Len(requests) = 4
    /\ requests[4].cursor = EndCursor
    /\ requests[4].raises = "none"
    /\ server.tail = "empty"
    /\ fetched.returned
    /\ fetched.markets = Concat(server.pages)
    /\ Len(server.pages) = 3

\* C23: get_order_book raises nothing whatever the REST call does: when the
\* REST call fails it returns None, when it succeeds it returns the book, and
\* it is allowed and behaves the same whether or not a stream runs, leaving
\* the flag, the worker, the connection and every worker's state as they were.
C23_OrderBookNeverThrows ==
    [][(Called /\ call'.op = "get_order_book") =>
          /\ call'.err = "none"
          /\ rest'.raised = "none"
          /\ rest'.fetch # "ok" => rest'.value = "None"
          /\ rest'.fetch = "ok" => rest'.value = "OrderBookSummary"
          /\ UNCHANGED <<clientVars, threadVars, msgVars>>]_vars

\* a failed fetch made while a session is streaming on an open connection
C23_Witness ==
    /\ call.op = "get_order_book"
    /\ rest.fetch = "ConnectionError"
    /\ rest.value = "None"
    /\ _streaming_active
    /\ \E t \in Threads : wsState[t] = "open"

\* the PINGs sent so far on connection n of worker t, oldest first
PingsOn(t, n) == SelectSeq(pings, LAMBDA q : q.t = t /\ q.n = n)

\* C24: every PING goes out on a connection that is subscribed and open, whose
\* session nobody asked to stop; the PINGs of one connection are 10 time units
\* apart; and a connection has one ping thread only.
C24_PingScopedToSubscribedPeriod ==
    [][/\ pings' # pings =>
            LET q == pings'[Len(pings')]
                before == PingsOn(q.t, q.n)
            IN /\ sent[q.t] = <<subscribe_message(token_ids[q.t])>>
               /\ wsCount[q.t] = q.n /\ wsState[q.t] = "open"
               /\ stopAt[q.t] = "none"
               /\ before # <<>> => q.at = before[Len(before)].at + ping_interval
       /\ \A p1, p2 \in pingers' : (p1.t = p2.t /\ p1.n = p2.n) => p1 = p2]_vars

\* C25: when the sink raises while on_message hands it an event, nothing
\* leaves on_message, the flag, the connection, the subscription and the worker
\* stay as they were, and a later message with events for subscribed tokens is
\* still handed to the sink.
C25_SinkExceptionRecovered ==
    [][received' # received =>
          LET e == received'[Len(received')]
              earlier == \E i \in 1..Len(received) : received[i].sinkRaised
          IN  /\ (e.sinkRaised /\ callback[e.t] = "cbRaisesOnBook") =>
                    /\ ~e.raised
                    /\ UNCHANGED <<clientVars, threadVars>>
              /\ (earlier /\ callback[e.t] = "cbRaisesOnBook" /\ e.message = PriceChange) =>
                    /\ e.calls = 2
                    /\ Len(sink') = Len(sink) + 2
                    /\ ~e.raised]_vars

\* the sink raised on a snapshot and the events of a later message reached it
C25_Witness ==
    \E i, j \in 1..Len(received) :
        /\ i < j
        /\ received[i].sinkRaised
        /\ received[i].message = Book
        /\ received[j].message = PriceChange
        /\ received[j].calls = 2
        /\ _streaming_active
        /\ wsState[received[i].t] = "open"

\* stop_streaming ran for the session of worker t and has returned
StopReturnedFor(t) ==
    /\ stopAt[t] # "none"
    /\ caller = "idle" \/ _streaming_thread # <<t>>

\* C26: once stop_streaming has returned, the sink of the stopped session is
\* not invoked again: no on_message of that session's worker calls it.
C26_NoCallbackAfterStop ==
    [][sink' # sink => ~StopReturnedFor(received'[Len(received')].t)]_vars

\* C27: a sink that calls stop_streaming while the worker of the running
\* session hands it an event gets nothing raised, and when its on_message call
\* ends the stop is complete: flag false, transport asked to close,
\* _websocket, _ws_callback and _ws_token_id cleared.
C27_StopFromInsideSink ==
    [][(received' # received /\ received'[Len(received')].stopped
            /\ _streaming_thread = <<received'[Len(received')].t>>) =>
          LET e == received'[Len(received')]
          IN  /\ ~e.sinkRaised
              /\ ~_streaming_active'
              /\ wsCloseReq'[e.t]
              /\ _websocket' = <<>>
              /\ _ws_callback' = "None"
              /\ _ws_token_id' = "None"]_vars

\* C28: a worker's reconnect delay stays within 1..60, no step lowers it, a
\* connection that opens leaves it as it is, and its value is fixed by the
\* number of backoff waits the worker has made since its session started.
C28_DelayNeverReset ==
    [][\A t \in Threads :
          /\ reconnect_delay'[t] >= reconnect_delay[t]
          /\ reconnect_delay'[t] \in initial_reconnect_delay..max_reconnect_delay
          /\ reconnect_delay'[t] = Min(Pow2(Len(delays'[t])), max_reconnect_delay)
          /\ (pc[t] = "run" /\ pc'[t] = "open") => reconnect_delay'[t] = reconnect_delay[t]]_vars

\* a worker whose second connection opened after one backoff wait, and which
\* then waited again with the doubled delay
C28_Witness ==
    \E t \in Threads :
        /\ [t |-> t, n |-> 2, st |-> "due", sleep_start |-> 0] \in pingers
        /\ wsCount[t] = 2
        /\ delays[t] = <<1, 2>>
        /\ reconnect_delay[t] = 4

\* message m with its discriminator under the key eventType instead of event_type
Respelled(m) ==
    [m EXCEPT !.keys = (m.keys \ {"event_type"}) \cup {"eventType"},
              !.eventType = m.event_type, !.event_type = ""]

\* C29: a message of a stream_order_books session and the same message with
\* its discriminator spelled eventType are classified alike: they cause the
\* same number of sink calls, with the same events.
C29_SpellingIndependent ==
    \A i, j \in 1..Len(received) :
        ( /\ received[i].t = received[j].t
          /\ kind[received[i].t] = "books"
          /\ "event_type" \in received[i].message.keys
          /\ received[j].message = Respelled(received[i].message) ) =>
            /\ received[j].calls = received[i].calls
            /\ \A k \in 1..received[i].calls : CallsOf(j)[k].data = CallsOf(i)[k].data

\* a displayed event whose price float() reads
Parsable(e) == ~e.price.none /\ e.price.text # NA /\ float(e.price.text).ok
\* the whole number of units of 10^-places nearest to a float: the decimal of
\* at most that many places the float stands for
units(n, e) ==
    IF e >= 0 THEN small(shifted_left(n, e))
    ELSE small(round_half_even(shifted_right(n, -e - 1), FALSE))
scaled(x, places) ==
    IF x.neg THEN -units(times10(x.m, places), x.e) ELSE units(times10(x.m, places), x.e)

\* the price of an event in thousandths
PriceOf(e) == scaled(float(e.price.text).v, 3)

\* the earlier price-change events of token k that carried a parsable price
EarlierPrices(k) ==
    SelectSeq(display.events,
              LAMBDA e : e.event_type = "price_change" /\ e.token_id = k /\ Parsable(e))

\* C30: a price-change event handed to a display callback is suppressed exactly
\* when its price is less than one tick size away from the price of the
\* preceding price-change event of its token; the first event of a token is
\* shown; an event without a parsable price is skipped and leaves the
\* remembered prices as they were.
C30_SuppressedBelowOneTick ==
    [][display'.events # display.events =>
          LET e == display'.events[Len(display'.events)]
              earlier == EarlierPrices(e.token_id)
          IN  e.event_type = "price_change" =>
                IF Parsable(e)
                THEN e.shown <=>
                        \/ earlier = <<>>
                        \/ Abs(PriceOf(e) - PriceOf(earlier[Len(earlier)]))
                                >= scaled(display.tick_size, 3)
                ELSE /\ ~e.shown
                     /\ display'.previous_prices = display.previous_prices]_vars

====
